---------------------------- MODULE Spec2Model ----------------------------
(***************************************************************************)
(* Karton: container session manager.                                      *)
(*                                                                         *)
(* Each process of the model is one invocation of the karton command line  *)
(* tool (one host pid, one container.Image object) working on ONE image.   *)
(* The shared state is what the invocations share on the host: the start   *)
(* lock file, the 'running-container-id' file (ContainerStateRecord), the  *)
(* 'running-command-<pid>' files (InFlightCommandRecord), the image's      *)
(* configuration (ImageRecord) and the Docker engine.  A step of a process *)
(* is one access to that shared state, followed by the local computation   *)
(* up to the next access.  When an invocation ends, its memory is gone:     *)
(* only how it ended (and, for status, what it printed) is kept.           *)
(***************************************************************************)
EXTENDS Integers, Sequences, FiniteSets, TLC

(* ------------------------------ bounds -------------------------------- *)

\* Number of concurrent invocations (host pids).
NProcs == 2
\* Longest list of hook commands per hook time in the ImageRecord.
MaxHooks == 1
\* Number of 'docker run' calls after which no further one is explored.
MaxRuns == 2
\* Longest timeout (in seconds) of a FileLock that is followed poll by poll.
MaxTimeout == 3
\* Most props.share_path calls in a definition file.
MaxShared == 2
\* Most operations on one Docker object.
MaxOps == 3
\* Most run_command calls of a definition file for one time.
MaxCmds == 2

Procs == 1..NProcs

(* --------------------------- program values --------------------------- *)

\* container.py:91, 656: None, "no container id".
NoId == 0
\* container.py:448-450: the id read from an empty (just truncated) file, ''.
EmptyId == -1
\* container.py:448-450: the text of a file written in part, which is not
\* JSON and is taken as the id.
PartialId == -2
\* The container that an earlier invocation created; later ones get 2, 3, ...
FirstId == 1
\* The NUL character that separates the arguments in an in-flight record.
NUL == 0
\* An in-flight record file that does not exist.
NoFile == <<-1>>
\* No process (the lock is free).
NoProc == 0
\* No exit code: the engine call has not returned one.
NoCode == -1
\* The exit codes of a command run in the container: success and failure.
ExitCodes == {0, 1}

\* version.py:8-11: numeric_version of the running tool.
numeric_version == <<1, 0, 0>>
\* Values of the ImageRecord's 'built-with-version' (test_image_updated.py:57-63).
BuiltVersions == {numeric_version, <<0, 0, 1>>}

\* Keys of ImageConfig.run_commands that container.py uses.
HookTimes == {"start", "before", "after", "stop"}
\* The argument vector of every hook command (one program, no arguments).
HookArgs == << <<1>> >>
\* Argument vectors of the user command, after _get_env_and_cmd_args:
\* none left ('karton run IMG VAR=1 --'), or a program and an argument.
UserArgvs == { <<>>, << <<1>>, <<2>> >> }

\* The commands of the command line tool that work on a container.
Cmds == {"start", "stop", "stop_force", "status", "run"}

\* Image.CD_YES, Image.CD_NO, Image.CD_AUTO.
CD_YES == 100
CD_NO == 101
CD_AUTO == 102

\* A path is a string: a sequence of characters. Sep is os.sep.
Sep == "/"

\* Python's None where a path is expected.
NoDir == <<"None">>

\* What exec_command_only yields instead of a directory when it raises CDError.
CdError == <<"CDError">>

\* ImageConfig.user_home, and the host directory mounted there
\* (DefinitionProperties.image_home_path_on_host).
user_home == <<"/", "h">>
image_home_path_on_host == <<"/", "k">>

\* The consistency of a shared path that gives none.
NoConsistency == "None"

\* The mount of the home directory: always the first of the shared paths.
HomeMount == <<image_home_path_on_host, user_home, NoConsistency>>

\* The paths a definition file shares with props.share_path(host, image).
SharePathCalls ==
    { << <<"/", "a">>, <<"/", "x">>, NoConsistency >>,
      << <<"/", "a", "/", "b">>, <<"/", "y">>, NoConsistency >>,
      << <<"/", "a", "/">>, <<"/", "a">>, NoConsistency >> }

\* The directories an invocation is started in.
HostDirs ==
    { <<"/">>, <<"/", "a">>, <<"/", "a", "b">>, <<"/", "a", "/", "b">>,
      <<"/", "a", "/", "b", "/", "a">>, <<"/", "k">>, <<"/", "c">> }

\* Docker._DOCKER_SUCCESS, _DOCKER_NO_COMMAND, _DOCKER_NO_SERVER,
\* _DOCKER_OTHER_ERROR.
DOCKER_SUCCESS == 1
DOCKER_NO_COMMAND == 2
DOCKER_NO_SERVER == 3
DOCKER_OTHER_ERROR == 10

\* Docker._DOCKER_GROUP_UNAVAILABLE, _DOCKER_GROUP_DOES_NOT_EXIST,
\* _DOCKER_GROUP_NOT_IN_GROUP, _DOCKER_GROUP_CONTAINS_USER.
DOCKER_GROUP_UNAVAILABLE == 1
DOCKER_GROUP_DOES_NOT_EXIST == 2
DOCKER_GROUP_NOT_IN_GROUP == 3
DOCKER_GROUP_CONTAINS_USER == 4

\* Docker._docker_command and Docker._sudo_command after __init__.
DockerCommand == <<"docker">>
SudoCommand == <<"sudo", "-n">>

\* Docker.__init__, with the record of what the object has run: the number of
\* version queries and of sudo probes, and for each operation its kind, the
\* command prefix it launched (<<>>: nothing was launched) and how it ended.
NewDocker ==
    [ docker_command   |-> DockerCommand,
      did_check_docker |-> FALSE,
      version_queries  |-> 0,
      sudo_probes      |-> 0,
      ops              |-> <<>> ]

\* A host on which 'docker version' reports client and server.
UsableEngine ==
    [ found |-> TRUE, failed |-> FALSE, json |-> "both",
      group |-> DOCKER_GROUP_CONTAINS_USER, sudo_ok |-> FALSE ]

\* DefinitionProperties.SUDO_WITH_PASSWORD, SUDO_PASSWORDLESS, SUDO_NO.
SUDO_WITH_PASSWORD == 101
SUDO_PASSWORDLESS == 102
SUDO_NO == 103

\* No Builder is at work.
NoBuild == [pc |-> "none"]

\* host_system.user_home, the directory of the definition file and its path.
HostUserHome == <<"/", "h">>
definition_file_dir == <<"/", "c">>
definition_path == "definition.py"

\* No exception, and the DefinitionError the Builder and the properties raise.
NoExc == [type |-> "None"]
DefinitionError == [type |-> "DefinitionError",
                    definition_file_path |-> definition_path]

\* ImageConfig._content of an image that was never built, and of one built
\* by an earlier version from a definition sharing /a as /x.
NewContent ==
    [ shared_paths |-> <<>>, hostname |-> "None", user_home |-> <<>>,
      run_commands |-> <<>>, built_with_version |-> <<0, 0, 0>>,
      build_time |-> 0 ]
OldContent ==
    [ shared_paths |-> << <<image_home_path_on_host, user_home>>,
                          << <<"/", "a">>, <<"/", "x">>, NoConsistency >> >>,
      hostname |-> "old-box", user_home |-> user_home,
      run_commands |-> [when \in HookTimes |-> <<>>],
      built_with_version |-> <<0, 0, 1>>, build_time |-> 1 ]

VARIABLES
    loc,          \* [Procs -> the invocation's own state, see InitLoc]
    lockHolder,   \* the process holding flock on start.lock, or NoProc
    record,       \* the id in 'running-container-id'; NoId: no file; EmptyId: empty
    running,      \* the containers the engine reports as running
    runCalls,     \* number of 'docker run --detach' calls made
    files,        \* [Procs -> contents of running-command-<pid>, or NoFile]
    imagePresent, \* 'docker images -q IMAGE' prints something
    builtWith,    \* ImageConfig.built_with_version
    hooks,        \* [HookTimes -> Len(ImageConfig.run_commands[when])]
    fl,           \* a FileLock object followed poll by poll, see NewFileLock
    cd_mode,      \* the cd_mode 'karton run' was given on the command line
    host_cwd,     \* os.getcwd() of the invocations
    shared_paths, \* ImageConfig.shared_paths
    docker,       \* a Docker object and what it has run, see NewDocker
    engine,       \* what the host answers to the availability check
    build         \* a Builder, its DefinitionProperties and what it wrote

configVars == <<imagePresent, builtWith, hooks, fl, cd_mode, host_cwd,
                shared_paths, docker, engine, build>>
sharedVars == <<lockHolder, record, running, runCalls, files, configVars>>
vars == <<loc, sharedVars>>

\* The state of an invocation that has not started.
InitLoc ==
    [ pc       |-> "idle",  \* position in the code
      cmd      |-> "none",  \* the command the invocation runs
      cached   |-> NoId,    \* Image._cached_container_content['id'], or NoId
      newc     |-> NoId,    \* new_container_data['id'] in ensure_container_running
      phase    |-> "none",  \* which exec_command_only call is in progress
      idx      |-> 0,       \* index in run_commands[phase]
      exc      |-> "none",  \* the exception that is propagating
      listing  |-> {},      \* pids of glob.glob() not yet visited
      commands |-> {},      \* the dictionary built by _get_running_commands
      cur      |-> <<>>,    \* <<pid, args>> read in the current iteration
      ret      |-> <<>>,    \* what status() returned
      seen     |-> NoId,    \* the id 'docker inspect' last reported as running
      code     |-> NoCode,  \* exit_code in _exec_with_prepared_args
      rc       |-> NoCode,  \* result in exec_command: the user command's exit code
      argv     |-> <<>>,    \* cmd_args of the user command
      answer   |-> "none",  \* answer in command_stop: "y", "n", or not asked
      container_dir |-> NoDir ]  \* container_dir in exec_command_only

\* The positions at which an invocation has ended: returned, died (log.die or
\* an uncaught exception), killed by a signal.
Ended == {"done", "died", "killed"}

pc(p) == loc[p].pc

\* lock.py:24-47: FileLock.__init__ with timeout t (seconds) and a timeout_cb
\* of kind cb: "none" (not given), "returns", or "raises" (as log.die does).
NewFileLock(t, cb) ==
    [ pc         |-> "fl_new",  \* position in acquire / release
      timeout    |-> t,         \* self._timeout
      timeout_cb |-> cb,        \* self._timeout_cb
      locked     |-> FALSE,     \* self._locked
      lock_file  |-> FALSE,     \* self._lock_file is an open file
      counter    |-> 0,         \* counter in acquire
      slept      |-> 0,         \* number of time.sleep(self._sleep_time) calls
      cb_calls   |-> 0,         \* number of calls of timeout_cb
      raised     |-> "none" ]   \* the exception acquire raised

\* The FileLock of the specifications that do not follow the polls: the
\* acquisition is one step there (ErAcquire, ErLockTimeout).
NoFileLock == [NewFileLock(0, "none") EXCEPT !.pc = "fl_unused"]

(* ------------------------- pure helper functions ---------------------- *)

\* '\0'.join(cmd_args): the arguments with a NUL between consecutive ones.
RECURSIVE Join(_)
Join(args) ==
    IF Len(args) = 0 THEN <<>>
    ELSE IF Len(args) = 1 THEN args[1]
    ELSE args[1] \o <<NUL>> \o Join(Tail(args))

\* text.split('\0'): the pieces between the NULs; one piece more than NULs.
RECURSIVE SplitFrom(_, _, _)
SplitFrom(text, i, piece) ==
    IF i > Len(text) THEN <<piece>>
    ELSE IF text[i] = NUL THEN <<piece>> \o SplitFrom(text, i + 1, <<>>)
    ELSE SplitFrom(text, i + 1, Append(piece, text[i]))

Split(text) == SplitFrom(text, 1, <<>>)

\* _serialize_execution_data: what is written into running-command-<pid>.
Serialize(args) == Join(args)

\* 'assert container_id': None and '' are false.
Truthy(id) == id # NoId /\ id # EmptyId

\* Docker.is_container_running: 'docker inspect' says "true".
IsContainerRunning(id) == id \in running

\* _die_if_old_build_version: the condition under which it dies.
OldBuildVersion == numeric_version # builtWith

\* _check_pid_running: os.kill(pid, 0) succeeds. A pid exists from the start of
\* the invocation until it returns, exits or is killed.
CheckPidRunning(q) == pc(q) \notin Ended \cup {"idle"}

\* _get_container_id / _load_container_content: the cached id, else the file's.
GetContainerId(p) == IF loc[p].cached # NoId THEN loc[p].cached ELSE record

\* The id the engine gives the container of the next 'run' call.
NewId == FirstId + runCalls + 1

\* The arguments exec_command_only registers for the current phase.
ExecArgs(p) == IF loc[p].phase = "user" THEN loc[p].argv ELSE HookArgs

At(where) == [pc |-> where, phase |-> "none", idx |-> 0]

\* Mutant: the at-start commands run through exec_command, which calls
\* ensure_container_running first.
ExecCommandsForTime_StartLocks(when, i) ==
    IF i < hooks[when]
    THEN (IF when = "start" THEN At("er_lock")
          ELSE [pc |-> "xo_begin", phase |-> when, idx |-> i])
    ELSE CASE when = "start"  -> At("er_release")
           [] when = "before" -> [pc |-> "xo_begin", phase |-> "user", idx |-> 0]
           [] when = "after"  -> At("done")
           [] when = "stop"   -> At("fs_stop")

\* exec_commands_for_time(when) from index i on, and what follows the loop:
\* the position, phase and index the process continues at.
ExecCommandsForTime(when, i) ==
    IF i < hooks[when]
    THEN [pc |-> "xo_begin", phase |-> when, idx |-> i]
    ELSE CASE when = "start"  -> At("er_release")
           [] when = "before" -> [pc |-> "xo_begin", phase |-> "user", idx |-> 0]
           [] when = "after"  -> At("done")
           [] when = "stop"   -> At("fs_stop")

\* Mutant: a fatal error that leaves the program without FileLock.__exit__.
RaiseTo_WithoutExit(p) == "died"

\* Where a fatal error (log.die, an assertion) leads: out of the 'with' block
\* through FileLock.__exit__ when the process is inside it, else out of the
\* program.
RaiseTo(p) == IF lockHolder = p THEN "er_release" ELSE "died"

\* The state of an invocation after a step: one that has ended keeps only how
\* it ended and, for 'karton status', what status() returned and saw, and for
\* a 'karton run' that returned, the exit code of SystemExit.
Settle(l) ==
    IF l.pc \in Ended
    THEN [InitLoc EXCEPT !.pc = l.pc, !.exc = l.exc,
                         !.rc = IF l.pc = "done" THEN l.rc ELSE NoCode,
                         !.ret = IF l.cmd = "status" THEN l.ret ELSE <<>>,
                         !.seen = IF l.cmd = "status" THEN l.seen ELSE NoId]
    ELSE l

\* Process p continues with local state l.
Step(p, l) == loc' = [loc EXCEPT ![p] = Settle(l)]

\* l, continuing at position n.pc, in phase n.phase, at hook index n.idx.
Goto(l, n) == [l EXCEPT !.pc = n.pc, !.phase = n.phase, !.idx = n.idx]

(* ------------------------------ initial state ------------------------- *)

\* What earlier invocations can have left behind: nothing; a running container
\* with its record; a record whose container no longer runs (stale).
InitWorlds ==
    { <<NoId, {}>>, <<FirstId, {FirstId}>>, <<FirstId, {}>> }

Init ==
    /\ loc = [p \in Procs |-> InitLoc]
    /\ lockHolder = NoProc
    /\ \E w \in InitWorlds : record = w[1] /\ running = w[2]
    /\ runCalls = 0
    /\ files = [p \in Procs |-> NoFile]
    /\ imagePresent \in BOOLEAN
    /\ (running # {} => imagePresent)
    /\ builtWith \in BuiltVersions
    /\ \E n \in 0..MaxHooks : hooks = [when \in HookTimes |-> n]
    /\ fl = NoFileLock
    /\ docker = NewDocker /\ engine = UsableEngine
    /\ build = NoBuild
    /\ cd_mode = CD_YES
    /\ host_cwd = <<"/", "a">>
    /\ shared_paths = <<HomeMount, << <<"/", "a">>, <<"/", "x">>,
                                     NoConsistency >> >>

(* ------------------------------- actions ------------------------------ *)

\* main(): a new invocation of 'karton <c> IMAGE [a]' with a fresh Image object.
Begin(p, c, a) ==
    /\ Step(p, [InitLoc EXCEPT
                  !.cmd = c, !.argv = a,
                  !.pc = IF c \in {"start", "run"} THEN "er_lock" ELSE "st_read"])
    /\ UNCHANGED sharedVars

\* An invocation starts with a pid that was not used before. Pids are given
\* out in order: the k-th such invocation is process k.
Invoke(p, c, a) ==
    /\ pc(p) = "idle"
    /\ \A q \in Procs : q < p => pc(q) # "idle"
    /\ Begin(p, c, a)

\* An invocation starts after another has ended and gets its place; the pid
\* is one that no in-flight record names.
Reinvoke(p, c, a) ==
    /\ pc(p) \in Ended
    /\ files[p] = NoFile
    /\ Begin(p, c, a)

\* Mutant: flock does not exclude other holders.
FlockSucceeds_NoExclusion(p) == TRUE

\* fcntl.flock(LOCK_EX | LOCK_NB) succeeds: nobody holds the lock.
FlockSucceeds(p) == lockHolder = NoProc

\* FileLock.acquire: the lock is obtained.
ErAcquire(p) ==
    /\ pc(p) = "er_lock"
    /\ FlockSucceeds(p)
    /\ lockHolder' = p
    /\ Step(p, [loc[p] EXCEPT !.pc = "er_read"])
    /\ UNCHANGED <<record, running, runCalls, files, configVars>>

\* FileLock.acquire: the lock stayed taken for the whole timeout; timeout_cb dies.
ErLockTimeout(p) ==
    /\ pc(p) = "er_lock"
    /\ ~FlockSucceeds(p)
    /\ Step(p, [loc[p] EXCEPT !.pc = "died", !.exc = "lock_timeout"])
    /\ UNCHANGED sharedVars

\* ensure_container_running: container_id = self._get_container_id().
ErRead(p) ==
    /\ pc(p) = "er_read"
    /\ Step(p, [loc[p] EXCEPT
                  !.cached = GetContainerId(p),
                  !.pc = IF GetContainerId(p) # NoId THEN "er_inspect"
                         ELSE "er_images"])
    /\ UNCHANGED sharedVars

\* Mutant: ensure_container_running that runs the at-start hooks on every call.
ErInspect_RunsStartHooks(p) ==
    /\ pc(p) = "er_inspect"
    /\ Step(p, IF IsContainerRunning(loc[p].cached)
               THEN Goto(loc[p], ExecCommandsForTime("start", 0))
               ELSE [loc[p] EXCEPT !.pc = "er_images", !.cached = NoId])
    /\ UNCHANGED sharedVars

\* Mutant: ensure_container_running that never trusts the record.
ErInspect_AlwaysCreates(p) ==
    /\ pc(p) = "er_inspect"
    /\ Step(p, [loc[p] EXCEPT !.pc = "er_images", !.cached = NoId])
    /\ UNCHANGED sharedVars

\* ensure_container_running: is the recorded container running?
ErInspect(p) ==
    /\ pc(p) = "er_inspect"
    /\ Step(p, IF IsContainerRunning(loc[p].cached)
               THEN [loc[p] EXCEPT !.pc = "er_release"]
               ELSE [loc[p] EXCEPT !.pc = "er_images", !.cached = NoId])
    /\ UNCHANGED sharedVars

\* Mutant: _run_main_container without _die_if_old_build_version.
RunPrecondition_NoVersionCheck(listed) ==
    IF ~listed THEN "images_failed"
    ELSE IF ~imagePresent THEN "not_built"
    ELSE "none"

\* What _run_main_container dies of before the 'run' call, or "none".
RunPrecondition(listed) ==
    IF ~listed THEN "images_failed"
    ELSE IF ~imagePresent THEN "not_built"
    ELSE IF OldBuildVersion THEN "old_version"
    ELSE "none"

\* _run_main_container: 'docker images -q' and _die_if_old_build_version.
ErImages(p, listed) ==
    /\ pc(p) = "er_images"
    /\ Step(p, [loc[p] EXCEPT
                  !.exc = RunPrecondition(listed),
                  !.pc = IF RunPrecondition(listed) = "none" THEN "er_run"
                         ELSE RaiseTo(p)])
    /\ UNCHANGED sharedVars

\* _run_main_container: 'docker run --detach ...'.
ErRun(p, ok) ==
    /\ pc(p) = "er_run"
    /\ runCalls < MaxRuns
    /\ runCalls' = runCalls + 1
    /\ running' = IF ok THEN running \cup {NewId} ELSE running
    /\ Step(p, IF ok
               THEN [loc[p] EXCEPT !.pc = "er_trunc", !.newc = NewId]
               ELSE [loc[p] EXCEPT !.pc = RaiseTo(p), !.exc = "run_failed"])
    /\ UNCHANGED <<lockHolder, record, files, configVars>>

\* ensure_container_running: open(self._running_container_info_path, 'w').
ErTrunc(p) ==
    /\ pc(p) = "er_trunc"
    /\ record' = EmptyId
    /\ Step(p, [loc[p] EXCEPT !.pc = "er_write"])
    /\ UNCHANGED <<lockHolder, running, runCalls, files, configVars>>

\* ensure_container_running: json.dump has written a part of the text and
\* the file object passes it on to the file before it is closed.
ErFlush(p) ==
    /\ pc(p) = "er_write"
    /\ record = EmptyId
    /\ record' = PartialId
    /\ UNCHANGED <<loc, lockHolder, running, runCalls, files, configVars>>

\* ensure_container_running: json.dump(new_container_data), close; then
\* exec_commands_for_time('start').
ErWrite(p) ==
    /\ pc(p) = "er_write"
    /\ record' = loc[p].newc
    /\ Step(p, Goto(loc[p], ExecCommandsForTime("start", 0)))
    /\ UNCHANGED <<lockHolder, running, runCalls, files, configVars>>

\* FileLock.__exit__ / release; then command_start returns, command_run goes
\* on to exec_command, and a fatal error leaves the program.
ErRelease(p) ==
    /\ pc(p) = "er_release"
    /\ lockHolder' = NoProc
    /\ Step(p, Goto(loc[p],
                    IF loc[p].exc # "none" THEN At("died")
                    ELSE IF loc[p].cmd = "run" THEN ExecCommandsForTime("before", 0)
                    ELSE At("done")))
    /\ UNCHANGED <<record, running, runCalls, files, configVars>>

(* ---------------------- FileLock, poll by poll ------------------------ *)

\* lock.py:47: 1 / self._sleep_time, the polls per second.
SleepsPerSecond == 2
\* The process that owns the FileLock object that is followed.
FlOwner == 1

\* The kinds of timeout_cb: not given, one that returns, one that raises.
CbKinds == {"none", "returns", "raises"}

\* Mutant: acquire that compares the counter with twice the polls of the timeout.
TimedOut_TwiceAsLate == fl.counter >= 2 * fl.timeout * SleepsPerSecond + 2

\* acquire: 'counter * self._sleep_time >= self._timeout'.
TimedOut == fl.counter >= fl.timeout * SleepsPerSecond

\* A step of the FileLock that leaves the lock file's flock as it is.
FlSets(f) ==
    /\ fl' = f
    /\ UNCHANGED <<loc, lockHolder, record, running, runCalls, files,
                   imagePresent, builtWith, hooks, cd_mode, host_cwd,
                   shared_paths, docker, engine, build>>

\* acquire: the assertions, counter = 0, open(self._lock_file_path, 'w+').
FlOpen ==
    /\ fl.pc = "fl_new"
    /\ ~fl.locked /\ ~fl.lock_file
    /\ FlSets([fl EXCEPT !.pc = "fl_flock", !.lock_file = TRUE, !.counter = 0])

\* fcntl.flock(LOCK_EX | LOCK_NB) does not raise: no process holds the lock.
FlockGranted == lockHolder = NoProc

\* acquire: flock succeeds, self._locked = True, break; or it raises IOError
\* with EAGAIN and acquire goes on to time.sleep.
FlFlock ==
    /\ fl.pc = "fl_flock"
    /\ IF FlockGranted
       THEN /\ lockHolder' = FlOwner
            /\ fl' = [fl EXCEPT !.pc = "fl_acquired", !.locked = TRUE]
       ELSE /\ lockHolder' = lockHolder
            /\ fl' = [fl EXCEPT !.pc = "fl_sleep"]
    /\ UNCHANGED <<loc, record, running, runCalls, files, imagePresent,
                   builtWith, hooks, cd_mode, host_cwd, shared_paths, docker,
                   engine, build>>

\* acquire: flock raises IOError with another errno; it is raised again.
FlFlockError ==
    /\ fl.pc = "fl_flock"
    /\ FlSets([fl EXCEPT !.pc = "fl_raised", !.raised = "IOError"])

\* acquire: time.sleep(self._sleep_time).
FlSleep ==
    /\ fl.pc = "fl_sleep"
    /\ FlSets([fl EXCEPT !.pc = "fl_check", !.slept = @ + 1])

\* Mutant: acquire that gives up on the timeout only through timeout_cb.
AfterTimeoutCb_ReturnsToLoop ==
    IF fl.timeout_cb = "raises"
    THEN [fl EXCEPT !.pc = "fl_raised", !.raised = "timeout_cb",
                    !.cb_calls = @ + 1]
    ELSE IF fl.timeout_cb = "returns"
    THEN [fl EXCEPT !.pc = "fl_acquired", !.cb_calls = @ + 1]
    ELSE [fl EXCEPT !.pc = "fl_raised", !.raised = "TimeoutError"]

\* acquire after the timeout: timeout_cb, if given, is called and may raise;
\* if it is not given or returns, TimeoutError is raised.
AfterTimeoutCb ==
    IF fl.timeout_cb = "raises"
    THEN [fl EXCEPT !.pc = "fl_raised", !.raised = "timeout_cb",
                    !.cb_calls = @ + 1]
    ELSE IF fl.timeout_cb = "returns"
    THEN [fl EXCEPT !.pc = "fl_raised", !.raised = "TimeoutError",
                    !.cb_calls = @ + 1]
    ELSE [fl EXCEPT !.pc = "fl_raised", !.raised = "TimeoutError"]

\* acquire: the timeout check after the sleep; else counter += 1, continue.
FlCheck ==
    /\ fl.pc = "fl_check"
    /\ FlSets(IF TimedOut THEN AfterTimeoutCb
              ELSE [fl EXCEPT !.pc = "fl_flock", !.counter = @ + 1])

\* release (FileLock.__exit__): flock(LOCK_UN), self._locked = False, close.
FlRelease ==
    /\ fl.pc = "fl_acquired"
    /\ fl.locked /\ fl.lock_file
    /\ lockHolder' = IF lockHolder = FlOwner THEN NoProc ELSE lockHolder
    /\ fl' = [fl EXCEPT !.pc = "fl_released", !.locked = FALSE,
                        !.lock_file = FALSE]
    /\ UNCHANGED <<loc, record, running, runCalls, files, imagePresent,
                   builtWith, hooks, cd_mode, host_cwd, shared_paths, docker,
                   engine, build>>

\* Another process q takes the flock on the same file, or gives it up.
OtherFlock(q) ==
    /\ fl.pc # "fl_unused"
    /\ q # FlOwner
    /\ \/ lockHolder = NoProc /\ lockHolder' = q
       \/ lockHolder = q /\ lockHolder' = NoProc
    /\ UNCHANGED <<loc, record, running, runCalls, files, imagePresent,
                   builtWith, hooks, fl, cd_mode, host_cwd, shared_paths,
                   docker, engine, build>>

\* The steps of the FileLock's owner.
FlStep == FlOpen \/ FlFlock \/ FlFlockError \/ FlSleep \/ FlCheck \/ FlRelease

(* --------------------------- working directory ------------------------ *)

\* str.startswith(prefix).
StartsWith(s, prefix) ==
    Len(prefix) <= Len(s) /\ SubSeq(s, 1, Len(prefix)) = prefix

\* str.replace(old, new): every occurrence of old, from left to right.
RECURSIVE Replace(_, _, _)
Replace(s, old, new) ==
    IF s = <<>> THEN <<>>
    ELSE IF StartsWith(s, old)
    THEN new \o Replace(SubSeq(s, Len(old) + 1, Len(s)), old, new)
    ELSE <<Head(s)>> \o Replace(Tail(s), old, new)

\* The segments of a path: what stands between its separators
\* (path.split('/') without the empty strings).
RECURSIVE SegmentsFrom(_, _)
SegmentsFrom(s, cur) ==
    IF s = <<>> THEN (IF cur = <<>> THEN <<>> ELSE <<cur>>)
    ELSE IF Head(s) = Sep
    THEN (IF cur = <<>> THEN <<>> ELSE <<cur>>) \o SegmentsFrom(Tail(s), <<>>)
    ELSE SegmentsFrom(Tail(s), Append(cur, Head(s)))

Segments(s) == SegmentsFrom(s, <<>>)

\* Mutant: normalize_dir that leaves the name as it is.
NormalizeDir_AsIs(dir_name) == dir_name

\* normalize_dir in _host_to_container_dir.
NormalizeDir(dir_name) ==
    IF dir_name # <<>> /\ dir_name[Len(dir_name)] = Sep
    THEN dir_name
    ELSE Append(dir_name, Sep)

\* reversed(seq).
Reversed(seq) == [i \in 1..Len(seq) |-> seq[Len(seq) + 1 - i]]

\* The for loop of _host_to_container_dir over mounts from index i on.
RECURSIVE HostToContainerDirFrom(_, _, _)
HostToContainerDirFrom(host_dir, mounts, i) ==
    IF i > Len(mounts) THEN NoDir
    ELSE IF StartsWith(host_dir, NormalizeDir(mounts[i][1]))
    THEN Replace(host_dir, NormalizeDir(mounts[i][1]),
                 NormalizeDir(mounts[i][2]))
    ELSE HostToContainerDirFrom(host_dir, mounts, i + 1)

\* _host_to_container_dir(host_dir).
HostToContainerDir(host_dir) ==
    HostToContainerDirFrom(NormalizeDir(host_dir), Reversed(shared_paths), 1)

\* The cd_mode of the exec_command_only call in progress: the hooks run with
\* Image.CD_NO, the user command with the mode of the command line.
CdMode(p) == IF loc[p].phase = "user" THEN cd_mode ELSE CD_NO

\* Mutant: always-cd that falls back to the home directory like auto.
ContainerDir_NeverRaises(mode) ==
    IF mode = CD_NO \/ HostToContainerDir(host_cwd) = NoDir
    THEN user_home
    ELSE HostToContainerDir(host_cwd)

\* container_dir in exec_command_only(cmd_args, mode), or CdError when it
\* raises CDError(host_cwd).
ContainerDir(mode) ==
    IF mode = CD_NO THEN user_home
    ELSE IF HostToContainerDir(host_cwd) = NoDir
    THEN IF mode = CD_AUTO THEN user_home ELSE CdError
    ELSE HostToContainerDir(host_cwd)

(* --------------------------- exec_command_only ------------------------ *)

\* Mutant: exec_command_only without _die_if_old_build_version.
ExecPrecondition_NoVersionCheck(id) ==
    IF ~Truthy(id) THEN "assert_id" ELSE "none"

\* What exec_command_only dies of before it registers the command, or "none":
\* 'assert container_id', then _die_if_old_build_version.
ExecPrecondition(id) ==
    IF ~Truthy(id) THEN "assert_id"
    ELSE IF OldBuildVersion THEN "old_version"
    ELSE "none"

\* What exec_command_only raises before it registers the command, or "none".
ExecRaises(p) ==
    IF ExecPrecondition(GetContainerId(p)) # "none"
    THEN ExecPrecondition(GetContainerId(p))
    ELSE IF ContainerDir(CdMode(p)) = CdError THEN "cd_error"
    ELSE "none"

\* exec_command_only up to _exec_with_prepared_args. command_run turns a
\* CDError into log.die.
XoBegin(p) ==
    /\ pc(p) = "xo_begin"
    /\ Step(p, [loc[p] EXCEPT
                  !.cached = GetContainerId(p),
                  !.exc = ExecRaises(p),
                  !.container_dir = IF ExecRaises(p) = "none"
                                    THEN ContainerDir(CdMode(p)) ELSE NoDir,
                  !.pc = IF ExecRaises(p) = "none"
                         THEN "xo_register" ELSE RaiseTo(p)])
    /\ UNCHANGED sharedVars

\* _exec_with_prepared_args: write running-command-<pid>, then enter
\* self.docker.call(actual_docker_args).
XoRegister(p) ==
    /\ pc(p) = "xo_register"
    /\ files' = [files EXCEPT ![p] = Serialize(ExecArgs(p))]
    /\ Step(p, [loc[p] EXCEPT !.pc = "xo_call"])
    /\ UNCHANGED <<lockHolder, record, running, runCalls, configVars>>

\* self.docker.call returns the exit code of the command, or could not
\* start the engine at all (OSError, _fail_later_docker_command dies).
XoCall(p, started, c) ==
    /\ pc(p) = "xo_call"
    /\ Step(p, [loc[p] EXCEPT !.pc = "xo_remove",
                              !.code = IF started THEN c ELSE NoCode,
                              !.exc = IF started THEN @ ELSE "exec_failed"])
    /\ UNCHANGED sharedVars

\* Mutant: os.remove after the call instead of in a 'finally' clause.
RemovesOnExit_OnlyOnReturn(p) == loc[p].exc = "none"

\* Whether the 'finally' clause of _exec_with_prepared_args runs os.remove on
\* this path (it does on every path).
RemovesOnExit(p) == TRUE

\* Mutant: exec_commands_for_time that checks the exit status of the hook.
ExcAfterRemove_ChecksHookStatus(p) ==
    IF RemovesOnExit(p) /\ files[p] = NoFile THEN "remove_failed"
    ELSE IF loc[p].phase # "user" /\ loc[p].code \notin {0, NoCode}
    THEN "hook_failed"
    ELSE loc[p].exc

\* The exception that propagates out of the 'finally' clause: the one that
\* entered it, or the OSError of os.remove when the file is gone.
ExcAfterRemove(p) ==
    IF RemovesOnExit(p) /\ files[p] = NoFile THEN "remove_failed" ELSE loc[p].exc

\* Mutant: exec_command that runs the after-command hooks only on success.
AfterUser_OnlyOnSuccess(p) ==
    IF loc[p].code # 0 THEN At("done") ELSE ExecCommandsForTime("after", 0)

\* exec_command after the user command has returned: the after-command hooks.
AfterUser(p) == ExecCommandsForTime("after", 0)

\* _exec_with_prepared_args: the 'finally' clause, then the return to the
\* caller: the next hook, the user command, or what follows the hooks.
XoRemove(p) ==
    /\ pc(p) = "xo_remove"
    /\ files' = IF RemovesOnExit(p) THEN [files EXCEPT ![p] = NoFile] ELSE files
    /\ Step(p, Goto([loc[p] EXCEPT !.exc = ExcAfterRemove(p),
                                   !.code = NoCode,
                                   !.container_dir = NoDir,
                                   !.rc = IF loc[p].phase = "user"
                                          THEN loc[p].code ELSE @],
                    IF ExcAfterRemove(p) # "none" THEN At(RaiseTo(p))
                    ELSE IF loc[p].phase = "user" THEN AfterUser(p)
                    ELSE ExecCommandsForTime(loc[p].phase, loc[p].idx + 1)))
    /\ UNCHANGED <<lockHolder, record, running, runCalls, configVars>>

\* The operator kills the invocation (SIGKILL) while it waits for the command
\* in the container; the kernel drops its flock.
Kill(p) ==
    /\ pc(p) = "xo_call"
    /\ lockHolder' = IF lockHolder = p THEN NoProc ELSE lockHolder
    /\ Step(p, [loc[p] EXCEPT !.pc = "killed"])
    /\ UNCHANGED <<record, running, runCalls, files, configVars>>

\* The pid of a killed invocation, whose in-flight record is still there,
\* is given by the system to a process that is not a karton invocation.
ReusePid(p) ==
    /\ pc(p) = "killed"
    /\ files[p] # NoFile
    /\ Step(p, [InitLoc EXCEPT !.pc = "foreign"])
    /\ UNCHANGED sharedVars

(* ------------------- status and _get_running_commands ----------------- *)

\* status() returns <<id, cmds>> to its caller. command_status is done;
\* command_stop returns if nothing runs, asks the user if commands run and
\* --force was not given, and else calls force_stop, which starts with
\* exec_commands_for_time('stop').
\* Mutant: command_stop that never asks.
AfterStatus_NeverAsks(l, id, cmds) ==
    Goto([l EXCEPT !.ret = <<id, cmds>>, !.listing = {}, !.commands = {},
                   !.cur = <<>>],
         IF l.cmd = "status" \/ id = NoId THEN At("done")
         ELSE ExecCommandsForTime("stop", 0))

AfterStatus(l, id, cmds) ==
    Goto([l EXCEPT !.ret = <<id, cmds>>, !.listing = {}, !.commands = {},
                   !.cur = <<>>],
         IF l.cmd = "status" \/ id = NoId THEN At("done")
         ELSE IF cmds # {} /\ l.cmd = "stop" THEN At("cs_prompt")
         ELSE ExecCommandsForTime("stop", 0))

\* status: container_id = self._get_container_id().
StRead(p) ==
    /\ pc(p) = "st_read"
    /\ Step(p, IF GetContainerId(p) = NoId
               THEN AfterStatus(loc[p], NoId, {})
               ELSE [loc[p] EXCEPT !.cached = GetContainerId(p),
                                   !.pc = "st_inspect"])
    /\ UNCHANGED sharedVars

\* The invocation after 'docker inspect' of its cached id has answered.
Inspected(p) ==
    [loc[p] EXCEPT !.seen = IF loc[p].cached \in running THEN loc[p].cached ELSE NoId]

\* Mutant: status() that trusts the record without asking the engine.
StatusRunning_TrustsRecord(id) == TRUE

\* Whether status() takes the container with this id to be running.
StatusRunning(id) == IsContainerRunning(id)

\* Mutant: status() that deletes the record of a container that stopped.
StInspect_DeletesStale(p) ==
    /\ pc(p) = "st_inspect"
    /\ record' = IF StatusRunning(loc[p].cached) THEN record ELSE NoId
    /\ Step(p, IF ~StatusRunning(loc[p].cached)
               THEN AfterStatus(Inspected(p), NoId, {})
               ELSE [Inspected(p) EXCEPT !.pc = "grc_glob"])
    /\ UNCHANGED <<lockHolder, running, runCalls, files, configVars>>

\* status: running = self.docker.is_container_running(container_id).
StInspect(p) ==
    /\ pc(p) = "st_inspect"
    /\ Step(p, IF ~StatusRunning(loc[p].cached)
               THEN AfterStatus(Inspected(p), NoId, {})
               ELSE [Inspected(p) EXCEPT !.pc = "grc_glob"])
    /\ UNCHANGED sharedVars

\* glob.glob('running-command-*'): the pids that have a record file.
GlobRunningCommands == {q \in Procs : files[q] # NoFile}

\* _get_running_commands: the directory listing.
GrcGlob(p) ==
    /\ pc(p) = "grc_glob"
    /\ Step(p, IF GlobRunningCommands = {}
               THEN AfterStatus(loc[p], loc[p].cached, {})
               ELSE [loc[p] EXCEPT !.listing = GlobRunningCommands,
                                   !.commands = {},
                                   !.pc = "grc_read"])
    /\ UNCHANGED sharedVars

\* Mutant: _get_running_commands without the 'except IOError' clause.
GrcRead_RaisesWhenGone(p, q) ==
    /\ pc(p) = "grc_read"
    /\ q \in loc[p].listing
    /\ Step(p, IF files[q] # NoFile
               THEN [loc[p] EXCEPT !.listing = @ \ {q},
                                   !.cur = <<q, Split(files[q])>>,
                                   !.pc = "grc_check"]
               ELSE [loc[p] EXCEPT !.pc = "died", !.exc = "io_error"])
    /\ UNCHANGED sharedVars

\* _get_running_commands: open and read the file of pid q; an IOError (the
\* file is gone) skips it.
GrcRead(p, q) ==
    /\ pc(p) = "grc_read"
    /\ q \in loc[p].listing
    /\ Step(p, IF files[q] # NoFile
               THEN [loc[p] EXCEPT !.listing = @ \ {q},
                                   !.cur = <<q, Split(files[q])>>,
                                   !.pc = "grc_check"]
               ELSE IF loc[p].listing = {q}
               THEN AfterStatus(loc[p], loc[p].cached, loc[p].commands)
               ELSE [loc[p] EXCEPT !.listing = @ \ {q}])
    /\ UNCHANGED sharedVars

\* Whether _get_running_commands drops (and deletes) the record of pid q.
Reclaims(q) == ~CheckPidRunning(q)

\* The dictionary after the iteration for loc[p].cur.
CommandsAfterCheck(p) ==
    IF Reclaims(loc[p].cur[1]) THEN loc[p].commands
    ELSE loc[p].commands \cup {loc[p].cur}

\* _get_running_commands: _check_pid_running; the record of a dead pid is
\* removed (an OSError is only logged), that of a live pid goes into the result.
GrcCheck(p) ==
    /\ pc(p) = "grc_check"
    /\ files' = IF Reclaims(loc[p].cur[1])
                THEN [files EXCEPT ![loc[p].cur[1]] = NoFile]
                ELSE files
    /\ Step(p, IF loc[p].listing = {}
               THEN AfterStatus(loc[p], loc[p].cached, CommandsAfterCheck(p))
               ELSE [loc[p] EXCEPT !.commands = CommandsAfterCheck(p),
                                   !.cur = <<>>,
                                   !.pc = "grc_read"])
    /\ UNCHANGED <<lockHolder, record, running, runCalls, configVars>>

(* ---------------------- command_stop and force_stop ------------------- *)

\* command_stop: the answer to 'Do you really want to stop the image? [Y/N]'.
CsAnswer(p, yes) ==
    /\ pc(p) = "cs_prompt"
    /\ Step(p, Goto([loc[p] EXCEPT !.answer = IF yes THEN "y" ELSE "n"],
                    IF yes THEN ExecCommandsForTime("stop", 0)
                    ELSE At("done")))
    /\ UNCHANGED sharedVars

\* force_stop: 'docker stop <id>'; a failure of the command is only logged.
FsStop(p, stopped) ==
    /\ pc(p) = "fs_stop"
    /\ running' = IF stopped THEN running \ {loc[p].cached} ELSE running
    /\ Step(p, [loc[p] EXCEPT !.pc = "fs_inspect"])
    /\ UNCHANGED <<lockHolder, record, runCalls, files, configVars>>

\* Mutant: force_stop that deletes the record without asking the engine again.
FsInspect_NoQuery(p) ==
    /\ pc(p) = "fs_inspect"
    /\ Step(p, [loc[p] EXCEPT !.pc = "fs_unlink"])
    /\ UNCHANGED sharedVars

\* force_stop: die if the container is still running.
FsInspect(p) ==
    /\ pc(p) = "fs_inspect"
    /\ Step(p, IF IsContainerRunning(loc[p].cached)
               THEN [loc[p] EXCEPT !.pc = "died", !.exc = "still_running"]
               ELSE [loc[p] EXCEPT !.pc = "fs_unlink"])
    /\ UNCHANGED sharedVars

\* force_stop: os.unlink(self._running_container_info_path); an OSError (no
\* such file) is only logged.
FsUnlink(p) ==
    /\ pc(p) = "fs_unlink"
    /\ record' = NoId
    /\ Step(p, [loc[p] EXCEPT !.pc = "done"])
    /\ UNCHANGED <<lockHolder, running, runCalls, files, configVars>>

(* ---------------------------- specifications -------------------------- *)

\* The steps of ensure_container_running.
EnsureStep(p) ==
    \/ ErAcquire(p)
    \/ ErLockTimeout(p)
    \/ ErRead(p)
    \/ ErInspect(p)
    \/ \E listed \in BOOLEAN : ErImages(p, listed)
    \/ \E ok \in BOOLEAN : ErRun(p, ok)
    \/ ErTrunc(p)
    \/ ErFlush(p)
    \/ ErWrite(p)
    \/ ErRelease(p)

\* The steps of exec_command_only.
ExecStep(p) ==
    \/ XoBegin(p)
    \/ XoRegister(p)
    \/ \E started \in BOOLEAN : \E c \in ExitCodes : XoCall(p, started, c)
    \/ XoRemove(p)

\* The steps of status(), _get_running_commands included.
StatusStep(p) ==
    \/ StRead(p)
    \/ StInspect(p)
    \/ GrcGlob(p)
    \/ \E q \in Procs : GrcRead(p, q)
    \/ GrcCheck(p)

\* The steps of command_stop after status(), and of force_stop.
StopStep(p) ==
    \/ \E yes \in BOOLEAN : CsAnswer(p, yes)
    \/ \E stopped \in BOOLEAN : FsStop(p, stopped)
    \/ FsInspect(p)
    \/ FsUnlink(p)

\* The command lines of command c: only 'run' takes a command to execute.
ArgvsOf(c) == IF c = "run" THEN UserArgvs ELSE {<<>>}

Next ==
    \E p \in Procs :
        \/ \E c \in Cmds : \E a \in ArgvsOf(c) : Invoke(p, c, a)
        \/ \E c \in Cmds : \E a \in ArgvsOf(c) : Reinvoke(p, c, a)
        \/ EnsureStep(p)
        \/ ExecStep(p)
        \/ StatusStep(p)
        \/ StopStep(p)
        \/ Kill(p)

Spec == Init /\ [][Next]_vars

(***************************************************************************)
(* Concurrent starts: every invocation is 'karton start', no container     *)
(* runs at the beginning, the image is built with this version, and every  *)
(* engine call succeeds.                                                   *)
(***************************************************************************)
InitStart ==
    /\ Init
    /\ running = {}
    /\ imagePresent
    /\ builtWith = numeric_version

NextStart ==
    \E p \in Procs :
        \/ Invoke(p, "start", <<>>)
        \/ ErAcquire(p)
        \/ ErLockTimeout(p)
        \/ ErRead(p)
        \/ ErInspect(p)
        \/ ErImages(p, TRUE)
        \/ ErRun(p, TRUE)
        \/ ErTrunc(p)
        \/ ErFlush(p)
        \/ ErWrite(p)
        \/ ErRelease(p)
        \/ XoBegin(p)
        \/ XoRegister(p)
        \/ XoCall(p, TRUE, 0)
        \/ XoRemove(p)

SpecStart == InitStart /\ [][NextStart]_vars

(***************************************************************************)
(* 'karton run' and 'karton status' invocations, kills, and pids of killed *)
(* invocations that the system gives to other processes.                   *)
(***************************************************************************)
NextInflight ==
    \E p \in Procs :
        \/ \E c \in {"run", "status"} : \E a \in ArgvsOf(c) : Invoke(p, c, a)
        \/ \E c \in {"run", "status"} : \E a \in ArgvsOf(c) : Reinvoke(p, c, a)
        \/ EnsureStep(p)
        \/ ExecStep(p)
        \/ StatusStep(p)
        \/ Kill(p)
        \/ ReusePid(p)

SpecInflight == Init /\ [][NextInflight]_vars

(***************************************************************************)
(* 'karton start' invocations in every world, with every outcome of the    *)
(* engine calls, where a process that can take a step of its own takes one *)
(* in the end: every engine call returns and every poll of the lock ends.  *)
(***************************************************************************)
NextEnsure ==
    \E p \in Procs :
        \/ Invoke(p, "start", <<>>)
        \/ EnsureStep(p)
        \/ ExecStep(p)
        \/ Kill(p)

SpecEnsure ==
    /\ Init
    /\ [][NextEnsure]_vars
    /\ \A p \in Procs : WF_vars(EnsureStep(p) \/ ExecStep(p))

(***************************************************************************)
(* One FileLock object, followed poll by poll, on a lock file that other   *)
(* processes take and give up at any time. Nothing else happens.           *)
(***************************************************************************)
InitLock ==
    /\ loc = [p \in Procs |-> InitLoc]
    /\ lockHolder \in {NoProc} \cup (Procs \ {FlOwner})
    /\ record = NoId /\ running = {} /\ runCalls = 0
    /\ files = [p \in Procs |-> NoFile]
    /\ imagePresent = TRUE /\ builtWith = numeric_version
    /\ hooks = [when \in HookTimes |-> 0]
    /\ \E t \in 0..MaxTimeout : \E cb \in CbKinds : fl = NewFileLock(t, cb)
    /\ cd_mode = CD_NO /\ host_cwd = <<"/">> /\ shared_paths = <<HomeMount>>
    /\ docker = NewDocker /\ engine = UsableEngine
    /\ build = NoBuild

NextLock ==
    \/ FlOpen
    \/ FlFlock
    \/ FlFlockError
    \/ FlSleep
    \/ FlCheck
    \/ FlRelease
    \/ \E q \in Procs : OtherFlock(q)

SpecLock == InitLock /\ [][NextLock]_vars

(***************************************************************************)
(* One FileLock object on a lock file that another process holds all the   *)
(* time; flock fails with EAGAIN only. The owner keeps being scheduled.     *)
(***************************************************************************)
InitHeld ==
    /\ InitLock
    /\ lockHolder # NoProc

NextHeld ==
    \/ FlOpen
    \/ FlFlock
    \/ FlSleep
    \/ FlCheck

SpecHeld == InitHeld /\ [][NextHeld]_vars /\ WF_vars(NextHeld)

(***************************************************************************)
(* 'karton run' in every cd mode, from every directory of HostDirs, with   *)
(* every list of shared paths: the container runs already, the image is    *)
(* built with this version, and the command starts.                        *)
(***************************************************************************)
CdModes == {CD_YES, CD_NO, CD_AUTO}

\* DefinitionProperties.get_path_mappings: the home mount, then the paths of
\* up to MaxShared different share_path calls in the order of the calls.
SharedPathLists ==
    { <<HomeMount>> \o l : l \in
        { m \in UNION { [1..n -> SharePathCalls] : n \in 0..MaxShared } :
            \A i, j \in DOMAIN m : m[i] = m[j] => i = j } }

InitCd ==
    /\ loc = [p \in Procs |-> InitLoc]
    /\ lockHolder = NoProc
    /\ record = FirstId /\ running = {FirstId} /\ runCalls = 0
    /\ files = [p \in Procs |-> NoFile]
    /\ imagePresent = TRUE /\ builtWith = numeric_version
    /\ \E n \in 0..MaxHooks : hooks = [when \in HookTimes |-> n]
    /\ fl = NoFileLock
    /\ cd_mode \in CdModes
    /\ host_cwd \in HostDirs
    /\ shared_paths \in SharedPathLists
    /\ docker = NewDocker /\ engine = UsableEngine
    /\ build = NoBuild

NextCd ==
    \E p \in Procs :
        \/ Invoke(p, "run", << <<1>>, <<2>> >>)
        \/ ErAcquire(p)
        \/ ErLockTimeout(p)
        \/ ErRead(p)
        \/ ErInspect(p)
        \/ ErRelease(p)
        \/ XoBegin(p)
        \/ XoRegister(p)
        \/ \E c \in ExitCodes : XoCall(p, TRUE, c)
        \/ XoRemove(p)

SpecCd == InitCd /\ [][NextCd]_vars

(***************************************************************************)
(* One Docker object on a host that answers the availability check in any  *)
(* way. The program that owns the object (run_karton called several times  *)
(* on one session) goes on using it after an operation has ended with      *)
(* SystemExit.                                                             *)
(***************************************************************************)

\* What 'docker version --format {{ json . }}' does: whether the binary is
\* found, whether it exits with an error, what its output holds; the answer
\* of _check_docker_group; whether 'sudo -n docker version' succeeds.
Engines ==
    [ found : BOOLEAN, failed : BOOLEAN,
      json : {"invalid", "no_client", "no_server", "both"},
      group : {DOCKER_GROUP_UNAVAILABLE, DOCKER_GROUP_DOES_NOT_EXIST,
               DOCKER_GROUP_NOT_IN_GROUP, DOCKER_GROUP_CONTAINS_USER},
      sudo_ok : BOOLEAN ]

\* Mutant: _try_docker that takes a missing client for a missing server.
TryDocker_NoClientIsNoServer ==
    IF ~engine.found THEN DOCKER_NO_COMMAND
    ELSE IF engine.json = "invalid" THEN DOCKER_OTHER_ERROR
    ELSE IF engine.json \in {"no_client", "no_server"} THEN DOCKER_NO_SERVER
    ELSE DOCKER_SUCCESS

\* _try_docker.
TryDocker ==
    IF ~engine.found THEN DOCKER_NO_COMMAND
    ELSE IF engine.json = "invalid" THEN DOCKER_OTHER_ERROR
    ELSE IF engine.json = "no_client" THEN DOCKER_OTHER_ERROR
    ELSE IF engine.json = "no_server" THEN DOCKER_NO_SERVER
    ELSE DOCKER_SUCCESS

\* _check_docker_group and _can_use_sudo.
CheckDockerGroup == engine.group
CanUseSudo == engine.sudo_ok

\* Mutant: _ensure_docker that never returns early.
Checks_EveryTime(d) == TRUE

\* Whether _ensure_docker goes past its early return.
Checks(d) == ~d.did_check_docker

\* Whether _ensure_docker, past its early return, reaches _can_use_sudo.
ProbesSudo ==
    /\ TryDocker = DOCKER_NO_SERVER
    /\ CheckDockerGroup = DOCKER_GROUP_DOES_NOT_EXIST

\* Whether _ensure_docker, past its early return, ends in die().
EnsureDies ==
    /\ TryDocker # DOCKER_SUCCESS
    /\ ~(ProbesSudo /\ CanUseSudo)

\* The Docker object after _ensure_docker.
EnsureDocker(d) ==
    IF ~Checks(d) THEN d
    ELSE [d EXCEPT
            !.did_check_docker = TRUE,
            !.version_queries = @ + 1,
            !.sudo_probes = IF ProbesSudo THEN @ + 1 ELSE @,
            !.docker_command = IF ProbesSudo /\ CanUseSudo
                               THEN SudoCommand \o @ ELSE @]

\* Whether proc.call(command + cmd_args) raises OSError: the program to
\* launch does not exist.
RaisesOSError(command) == Head(command) = "docker" /\ ~engine.found

\* How an operation of the given kind ends when _ensure_docker has returned
\* and the command exits with status zero (ok) or not.
OpResult(kind, command, ok) ==
    IF RaisesOSError(command) THEN "fail_later_docker_command"
    ELSE IF ok \/ kind = "call" THEN "returned"
    ELSE "CalledProcessError"

\* Docker.call, check_call, check_output: _ensure_docker, then the command.
DockerOp(kind, ok) ==
    /\ Len(docker.ops) < MaxOps
    /\ LET d == EnsureDocker(docker)
           dies == Checks(docker) /\ EnsureDies
       IN docker' = [d EXCEPT !.ops = Append(@,
              [ kind |-> kind,
                launched |-> IF dies \/ RaisesOSError(d.docker_command)
                             THEN <<>> ELSE d.docker_command,
                result |-> IF dies THEN "ensure_docker_died"
                           ELSE OpResult(kind, d.docker_command, ok) ])]
    /\ UNCHANGED <<loc, lockHolder, record, running, runCalls, files,
                   imagePresent, builtWith, hooks, fl, cd_mode, host_cwd,
                   shared_paths, engine, build>>

OpKinds == {"call", "check_call", "check_output"}

InitEngine ==
    /\ loc = [p \in Procs |-> InitLoc]
    /\ lockHolder = NoProc
    /\ record = NoId /\ running = {} /\ runCalls = 0
    /\ files = [p \in Procs |-> NoFile]
    /\ imagePresent = TRUE /\ builtWith = numeric_version
    /\ hooks = [when \in HookTimes |-> 0]
    /\ fl = NoFileLock
    /\ cd_mode = CD_NO /\ host_cwd = <<"/">> /\ shared_paths = <<HomeMount>>
    /\ docker = NewDocker
    /\ engine \in Engines
    /\ build = NoBuild

NextEngine == \E kind \in OpKinds : \E ok \in BOOLEAN : DockerOp(kind, ok)

SpecEngine == InitEngine /\ [][NextEngine]_vars

(***************************************************************************)
(* One Builder: generate() on the DefinitionProperties a definition file   *)
(* has set, then a later invocation that loads the ImageConfig it saved.   *)
(***************************************************************************)

\* The times of DefinitionProperties.run_command at which the command is
\* part of the Dockerfile, and the key of ImageConfig.run_commands under
\* which the commands of the other times are kept.
BuildTimes == {"at-build-start", "at-build-before-user-pkgs", "at-build-end"}
RunTimeOf ==
    [when \in HookTimes |->
        CASE when = "start"  -> "at-start"
          [] when = "before" -> "before-command"
          [] when = "after"  -> "after-command"
          [] when = "stop"   -> "at-stop"]

\* n commands given to run_command(when, ...).
Commands(when, n) == [i \in 1..n |-> <<when, i>>]

\* The DefinitionProperties objects setup_image leaves behind.
PropsSet ==
    { [ maintainer |-> m, additional_archs |-> a, deb_based |-> d,
        sudo |-> su, packages |-> pk, hostname |-> h, username |-> "alice",
        shared |-> sh, shared_home_paths |-> <<>>,
        image_home_path_on_host |-> image_home_path_on_host,
        run_commands |-> [when \in BuildTimes \cup {RunTimeOf[w] : w \in HookTimes}
                            |-> IF when \in BuildTimes
                                THEN Commands(when, nb[when])
                                ELSE Commands(when, nr)] ] :
        m \in {"None", "me"}, a \in {<<>>, <<"armhf", "i386">>},
        d \in BOOLEAN,
        su \in {SUDO_WITH_PASSWORD, SUDO_PASSWORDLESS, SUDO_NO},
        pk \in {<<>>, <<"gcc", "make">>}, h \in {"None", "box"},
        sh \in { <<>>,
                 << << <<"/", "a">>, <<"/", "x">>, "cached" >> >>,
                 << << <<"/", "a", "/", "b">>, <<"/", "y">>, NoConsistency >>,
                    << <<"/", "a">>, <<"/", "x">>, "delegated" >> >> },
        nb \in [BuildTimes -> 0..MaxCmds], nr \in 0..MaxCmds }

\* emit_install(*what).
EmitInstall(what) ==
    IF what = <<>> THEN <<>> ELSE <<[kind |-> "install", arg |-> what]>>

\* The steps that run the commands of a build time, one step per command.
EmitRun(props, when) ==
    [i \in 1..Len(props.run_commands[when]) |->
        [kind |-> when, arg |-> props.run_commands[when][i]]]

\* Mutant: the package lists are cleaned before the user's packages are
\* installed.
PackageSteps_CleanFirst(props) ==
    (IF props.deb_based
     THEN EmitInstall(<<"apt-utils">>) \o EmitInstall(<<"locales">>)
     ELSE <<>>)
    \o (IF props.sudo # SUDO_NO THEN EmitInstall(<<"sudo">>) ELSE <<>>)
    \o EmitInstall(<<"python">>)
    \o EmitRun(props, "at-build-before-user-pkgs")
    \o <<[kind |-> "clean", arg |-> <<>>]>>
    \o EmitInstall(props.packages)

\* _generate_docker_stuff from the installation of apt-utils to the cleaning
\* of the package lists.
PackageSteps(props) ==
    (IF props.deb_based
     THEN EmitInstall(<<"apt-utils">>) \o EmitInstall(<<"locales">>)
     ELSE <<>>)
    \o (IF props.sudo # SUDO_NO THEN EmitInstall(<<"sudo">>) ELSE <<>>)
    \o EmitInstall(<<"python">>)
    \o EmitRun(props, "at-build-before-user-pkgs")
    \o EmitInstall(props.packages)
    \o <<[kind |-> "clean", arg |-> <<>>]>>

\* Mutant: sudo without a password whatever the policy.
Nopasswd_Always(props) == <<"NOPASSWD: ">>

\* nopasswd in _generate_docker_stuff.
Nopasswd(props) ==
    IF props.sudo = SUDO_PASSWORDLESS THEN <<"NOPASSWD: ">> ELSE <<>>

\* The lines written to the file 'sudoers', or <<>> when none is written.
Sudoers(props) ==
    IF props.sudo = SUDO_NO THEN <<>>
    ELSE << <<"root", " ALL=(ALL) ", "ALL">>,
            <<props.username, " ALL=(ALL) ">> \o Nopasswd(props) \o <<"ALL">>,
            <<"Defaults    env_reset">>,
            <<"Defaults    secure_path=">> >>

\* The steps of the Dockerfile _generate_docker_stuff writes.
Dockerfile(props) ==
    <<[kind |-> "from", arg |-> <<>>]>>
    \o (IF props.maintainer # "None"
        THEN <<[kind |-> "maintainer", arg |-> <<props.maintainer>>]>>
        ELSE <<>>)
    \o EmitRun(props, "at-build-start")
    \o (IF props.additional_archs # <<>>
        THEN <<[kind |-> "add-architecture", arg |-> props.additional_archs]>>
        ELSE <<>>)
    \o PackageSteps(props)
    \o (IF props.sudo # SUDO_NO
        THEN <<[kind |-> "copy", arg |-> <<"sudoers", "/etc/sudoers">>],
               [kind |-> "chmod", arg |-> <<"440", "/etc/sudoers">>]>>
        ELSE <<>>)
    \o <<[kind |-> "add", arg |-> <<"session_runner.py">>],
         [kind |-> "add", arg |-> <<"command_runner.py">>],
         [kind |-> "useradd", arg |-> <<props.username>>],
         [kind |-> "user", arg |-> <<props.username>>]>>
    \o EmitRun(props, "at-build-end")

\* os.path.join of two paths.
PathJoin(a, b) ==
    IF StartsWith(b, <<Sep>>) THEN b
    ELSE IF a = <<>> \/ a[Len(a)] = Sep THEN a \o b
    ELSE a \o <<Sep>> \o b

\* The loop of os.path.normpath over the components: '.' and empty ones are
\* dropped, '..' removes the component before it, stays at the start of a
\* relative path and is dropped at the root.
RECURSIVE NormComps(_, _, _)
NormComps(comps, new_comps, slashes) ==
    IF comps = <<>> THEN new_comps
    ELSE LET comp == Head(comps) IN
         IF comp = <<".">> THEN NormComps(Tail(comps), new_comps, slashes)
         ELSE IF \/ comp # <<".", ".">>
                 \/ slashes = 0 /\ new_comps = <<>>
                 \/ new_comps # <<>>
                    /\ new_comps[Len(new_comps)] = <<".", ".">>
         THEN NormComps(Tail(comps), Append(new_comps, comp), slashes)
         ELSE IF new_comps # <<>>
         THEN NormComps(Tail(comps), SubSeq(new_comps, 1, Len(new_comps) - 1),
                        slashes)
         ELSE NormComps(Tail(comps), new_comps, slashes)

\* '/'.join(comps).
RECURSIVE JoinComps(_)
JoinComps(comps) ==
    IF comps = <<>> THEN <<>>
    ELSE IF Len(comps) = 1 THEN comps[1]
    ELSE comps[1] \o <<Sep>> \o JoinComps(Tail(comps))

\* os.path.normpath: two leading slashes are kept, three or more are one.
NormPath(path) ==
    LET slashes == IF ~StartsWith(path, <<Sep>>) THEN 0
                   ELSE IF /\ StartsWith(path, <<Sep, Sep>>)
                           /\ ~StartsWith(path, <<Sep, Sep, Sep>>)
                   THEN 2 ELSE 1
        out == [i \in 1..slashes |-> Sep]
               \o JoinComps(NormComps(Segments(path), <<>>, slashes))
    IN  IF out = <<>> THEN <<".">> ELSE out

\* DefinitionProperties.abspath.
Abspath(path) ==
    IF StartsWith(path, <<Sep>>) THEN path
    ELSE NormPath(PathJoin(definition_file_dir, path))

\* _check_not_home_dir raises DefinitionError.
CheckNotHomeDirRaises(host_path) == NormPath(host_path) = NormPath(HostUserHome)

\* The getter of DefinitionProperties.share_whole_home.
ShareWholeHome(props) == props.image_home_path_on_host = HostUserHome

\* The resources get_path_mappings collects for share_path_in_home.
SharedHomeResources(props) ==
    [i \in DOMAIN props.shared_home_paths |->
        << PathJoin(HostUserHome, props.shared_home_paths[i][1]),
           PathJoin(user_home, props.shared_home_paths[i][1]),
           props.shared_home_paths[i][2] >>]

\* Mutant: get_path_mappings that checks no path.
GetPathMappingsRaises_NoCheck(props) == FALSE

\* get_path_mappings raises DefinitionError: a shared path is the home.
GetPathMappingsRaises(props) ==
    \/ \E i \in DOMAIN props.shared_home_paths :
          CheckNotHomeDirRaises(SharedHomeResources(props)[i][1])
    \/ \E i \in DOMAIN props.shared :
          CheckNotHomeDirRaises(props.shared[i][1])

\* DefinitionProperties.get_path_mappings: the home mount is a pair.
GetPathMappings(props) ==
    << <<props.image_home_path_on_host, user_home>> >>
    \o SharedHomeResources(props) \o props.shared

\* DefinitionProperties.hostname.
Hostname(props) ==
    IF props.hostname # "None" THEN props.hostname ELSE "image-on-host"

\* The run-commands _generate_docker_stuff stores in the ImageConfig.
RunCommandsToSave(props) ==
    [when \in HookTimes |-> props.run_commands[RunTimeOf[when]]]

\* ImageConfig._content as _generate_docker_stuff saves it.
SavedContent(content, props) ==
    [content EXCEPT !.shared_paths = GetPathMappings(props),
                    !.hostname     = Hostname(props),
                    !.user_home    = user_home,
                    !.run_commands = RunCommandsToSave(props)]

\* Mutant: shared_paths that returns the details as they are stored.
ConfigSharedPaths_AsStored(content) == content.shared_paths

\* ImageConfig.shared_paths of a loaded configuration.
ConfigSharedPaths(content) ==
    [i \in DOMAIN content.shared_paths |->
        IF Len(content.shared_paths[i]) = 2
        THEN <<content.shared_paths[i][1], content.shared_paths[i][2],
               NoConsistency>>
        ELSE content.shared_paths[i]]

\* Mutant: the ImageConfig is saved although get_path_mappings raised.
GeneratedContent_SavesAnyway(content, props) == SavedContent(content, props)

\* The ImageConfig after _generate_docker_stuff: get_path_mappings raises
\* before anything is set, or the write-back is saved.
GeneratedContent(content, props) ==
    IF GetPathMappingsRaises(props) THEN content
    ELSE SavedContent(content, props)

\* Builder.generate: setup_image has run; _generate_docker_stuff writes the
\* sudoers file and the Dockerfile, then asks for the path mappings.
Generate ==
    /\ build.pc = "defined"
    /\ build' = [build EXCEPT
                   !.pc = IF GetPathMappingsRaises(build.props)
                          THEN "definition_error" ELSE "generated",
                   !.exc = IF GetPathMappingsRaises(build.props)
                           THEN DefinitionError ELSE NoExc,
                   !.dockerfile = Dockerfile(build.props),
                   !.sudoers = Sudoers(build.props),
                   !.content = GeneratedContent(build.content, build.props)]
    /\ UNCHANGED <<loc, lockHolder, record, running, runCalls, files,
                   imagePresent, builtWith, hooks, fl, cd_mode, host_cwd,
                   shared_paths, docker, engine>>

\* ImageConfig.__init__ of a later invocation, and what its properties
\* shared_paths, hostname and run_commands return.
Load ==
    /\ build.pc = "generated"
    /\ build' = [build EXCEPT
                   !.pc = "loaded",
                   !.read = [ shared_paths |-> ConfigSharedPaths(build.content),
                              hostname     |-> build.content.hostname,
                              run_commands |->
                                [when \in HookTimes |->
                                    IF when \in DOMAIN build.content.run_commands
                                    THEN build.content.run_commands[when]
                                    ELSE <<>>] ]]
    /\ UNCHANGED <<loc, lockHolder, record, running, runCalls, files,
                   imagePresent, builtWith, hooks, fl, cd_mode, host_cwd,
                   shared_paths, docker, engine>>

InitBuild ==
    /\ loc = [p \in Procs |-> InitLoc]
    /\ lockHolder = NoProc
    /\ record = NoId /\ running = {} /\ runCalls = 0
    /\ files = [p \in Procs |-> NoFile]
    /\ imagePresent = FALSE /\ builtWith = numeric_version
    /\ hooks = [when \in HookTimes |-> 0]
    /\ fl = NoFileLock
    /\ cd_mode = CD_NO /\ host_cwd = <<"/">> /\ shared_paths = <<HomeMount>>
    /\ docker = NewDocker /\ engine = UsableEngine
    /\ \E props \in PropsSet :
          build = [pc |-> "defined", props |-> props, dockerfile |-> <<>>,
                   sudoers |-> <<>>, content |-> NewContent, read |-> <<>>,
                   exc |-> NoExc]

NextBuild == Generate \/ Load

SpecBuild == InitBuild /\ [][NextBuild]_vars

(***************************************************************************)
(* Image.build: the Builder runs setup_image of the definition file, which *)
(* sets properties one after the other, renders the Dockerfile, the engine *)
(* builds the image and the ImageConfig is saved.                          *)
(***************************************************************************)

\* DefinitionProperties.__init__.
DefaultProps ==
    [ maintainer |-> "None", additional_archs |-> <<>>, deb_based |-> TRUE,
      sudo |-> SUDO_PASSWORDLESS, packages |-> <<>>, hostname |-> "None",
      username |-> "alice", shared |-> <<>>, shared_home_paths |-> <<>>,
      image_home_path_on_host |-> image_home_path_on_host,
      distro |-> <<"ubuntu", "latest">>, architecture |-> "x86_64",
      copied |-> <<>>,
      run_commands |-> [when \in BuildTimes \cup {RunTimeOf[w] : w \in HookTimes}
                          |-> <<>>] ]

\* What the definitions of the model give to the properties: distros as
\* distro.split(':') cuts them, architectures, sudo policies, consistencies,
\* destinations of copy, host paths.
DistroArgs == { <<"debian">>, <<"centos", "7">>, <<"invalid">>,
                <<"ubuntu", "16", "04">> }
ArchitectureArgs == {"armv7", "sparc"}
SudoArgs == {SUDO_NO, SUDO_NO + 1}
ConsistencyArgs == {NoConsistency, "cached", "bogus"}
CopyDestArgs == { <<"/", "d">>, <<"d">> }
HomePathArgs == { <<"/", "h">>, <<"/", "h", "/">>, <<"/", "/", "h">>,
                  <<"/", "h", "/", "x", "/", ".", ".">>, <<"/", "c">> }
SharePathArgs == { <<"/", "h">>, <<"/", "h", "/", ".">>, <<"/", "h", "/", "x">>,
                   <<".", ".", "/", "h">> }
SharePathInHomeArgs == { <<>>, <<".">>, <<"x">>, <<"x", "/", ".", ".">> }
OtherExceptions == {"AttributeError", "KeyboardInterrupt"}

\* Mutant: generate that catches Exception only.
Caught_ExceptionOnly(exc) ==
    IF exc.type = "KeyboardInterrupt" THEN exc ELSE DefinitionError

\* generate: 'except BaseException' raises DefinitionError(definition_path).
Caught(exc) == DefinitionError

\* setup_image goes on with the properties props.
Sets(props) ==
    /\ build.pc = "setup"
    /\ build' = [build EXCEPT !.props = props]
    /\ UNCHANGED <<loc, lockHolder, record, running, runCalls, files,
                   imagePresent, builtWith, hooks, fl, cd_mode, host_cwd,
                   shared_paths, docker, engine>>

\* setup_image raises exc; generate raises what its except clause makes of
\* it, _generate_docker_stuff is not called.
Raises(exc) ==
    /\ build.pc = "setup"
    /\ build' = [build EXCEPT !.pc = "definition_error", !.exc = Caught(exc)]
    /\ UNCHANGED <<loc, lockHolder, record, running, runCalls, files,
                   imagePresent, builtWith, hooks, fl, cd_mode, host_cwd,
                   shared_paths, docker, engine>>

\* props.distro = distro.
SetDistro(distro) ==
    IF Len(distro) > 2
       \/ distro[1] \notin {"ubuntu", "debian", "centos", "fedora"}
    THEN Raises(DefinitionError)
    ELSE Sets([build.props EXCEPT
                 !.distro = <<distro[1], IF Len(distro) = 1 THEN "latest"
                                         ELSE distro[2]>>,
                 !.deb_based = distro[1] \in {"debian", "ubuntu"}])

\* props.architecture = architecture.
SetArchitecture(architecture) ==
    IF architecture \notin {"x86_64", "aarch64", "armv7"}
    THEN Raises(DefinitionError)
    ELSE Sets([build.props EXCEPT !.architecture = architecture])

\* props.sudo = sudo.
SetSudo(sudo) ==
    IF sudo \notin {SUDO_PASSWORDLESS, SUDO_WITH_PASSWORD, SUDO_NO}
    THEN Raises(DefinitionError)
    ELSE Sets([build.props EXCEPT !.sudo = sudo])

\* _check_consistency_valid(consistency, allow_none=True) raises.
CheckConsistencyValidRaises(consistency) ==
    consistency \notin {"consistent", "cached", "delegated", NoConsistency}

\* props.share_path(host_path, consistency=consistency).
SharePath(host_path, consistency) ==
    /\ Len(build.props.shared) + Len(build.props.shared_home_paths) < MaxShared
    /\ IF CheckConsistencyValidRaises(consistency)
       THEN Raises(DefinitionError)
       ELSE Sets([build.props EXCEPT
                    !.shared = Append(@, <<Abspath(host_path),
                                           Abspath(host_path), consistency>>)])

\* props.share_path_in_home(relative_path, consistency).
SharePathInHome(relative_path, consistency) ==
    /\ Len(build.props.shared) + Len(build.props.shared_home_paths) < MaxShared
    /\ IF CheckConsistencyValidRaises(consistency)
       THEN Raises(DefinitionError)
       ELSE Sets([build.props EXCEPT
                    !.shared_home_paths =
                        Append(@, <<relative_path, consistency>>)])

\* props.copy(src_path, dest_path).
Copy(dest_path) ==
    /\ Len(build.props.copied) < MaxShared
    /\ IF ~StartsWith(dest_path, <<Sep>>)
       THEN Raises(DefinitionError)
       ELSE Sets([build.props EXCEPT !.copied = Append(@, dest_path)])

\* props.image_home_path_on_host = path.
SetImageHomePathOnHost(path) ==
    IF CheckNotHomeDirRaises(path)
    THEN Raises(DefinitionError)
    ELSE Sets([build.props EXCEPT !.image_home_path_on_host = path])

\* props.share_whole_home = share.
SetShareWholeHome(share) ==
    IF share = ShareWholeHome(build.props) THEN Sets(build.props)
    ELSE IF ~share THEN Raises(DefinitionError)
    ELSE Sets([build.props EXCEPT !.image_home_path_on_host = HostUserHome])

\* setup_image raises something else: a missing attribute, an interrupt.
RaiseOther(type) == Raises([type |-> type])

\* setup_image returns.
SetupReturns ==
    /\ build.pc = "setup"
    /\ build' = [build EXCEPT !.pc = "defined"]
    /\ UNCHANGED <<loc, lockHolder, record, running, runCalls, files,
                   imagePresent, builtWith, hooks, fl, cd_mode, host_cwd,
                   shared_paths, docker, engine>>

\* Mutant: the build information is set whatever 'docker build' returned.
BuiltContent_EvenIfFailed(content, ok) ==
    [content EXCEPT !.built_with_version = numeric_version,
                    !.build_time = @ + 1]

\* Image.build after 'docker build': built_with_version, build_time, save().
BuiltContent(content, ok) ==
    IF ok THEN [content EXCEPT !.built_with_version = numeric_version,
                               !.build_time = @ + 1]
    ELSE content

\* Image.build: docker.check_call(['build', ...]) returns or raises
\* CalledProcessError, on which build dies.
EngineBuild(ok) ==
    /\ build.pc = "generated"
    /\ build' = [build EXCEPT
                   !.pc = IF ok THEN "built" ELSE "build_failed",
                   !.content = BuiltContent(build.content, ok)]
    /\ UNCHANGED <<loc, lockHolder, record, running, runCalls, files,
                   imagePresent, builtWith, hooks, fl, cd_mode, host_cwd,
                   shared_paths, docker, engine>>

\* The ImageConfig the build starts from.
EntryContents == {NewContent, OldContent}

InitDefine ==
    /\ loc = [p \in Procs |-> InitLoc]
    /\ lockHolder = NoProc
    /\ record = NoId /\ running = {} /\ runCalls = 0
    /\ files = [p \in Procs |-> NoFile]
    /\ imagePresent = FALSE /\ builtWith = numeric_version
    /\ hooks = [when \in HookTimes |-> 0]
    /\ fl = NoFileLock
    /\ cd_mode = CD_NO /\ host_cwd = <<"/">> /\ shared_paths = <<HomeMount>>
    /\ docker = NewDocker /\ engine = UsableEngine
    /\ \E content \in EntryContents :
          build = [pc |-> "setup", props |-> DefaultProps, dockerfile |-> <<>>,
                   sudoers |-> <<>>, content |-> content, read |-> <<>>,
                   exc |-> NoExc]

NextDefine ==
    \/ \E distro \in DistroArgs : SetDistro(distro)
    \/ \E architecture \in ArchitectureArgs : SetArchitecture(architecture)
    \/ \E sudo \in SudoArgs : SetSudo(sudo)
    \/ \E host_path \in SharePathArgs, consistency \in ConsistencyArgs :
          SharePath(host_path, consistency)
    \/ \E relative_path \in SharePathInHomeArgs,
          consistency \in ConsistencyArgs :
          SharePathInHome(relative_path, consistency)
    \/ \E dest_path \in CopyDestArgs : Copy(dest_path)
    \/ \E path \in HomePathArgs : SetImageHomePathOnHost(path)
    \/ \E share \in BOOLEAN : SetShareWholeHome(share)
    \/ \E type \in OtherExceptions : RaiseOther(type)
    \/ SetupReturns
    \/ Generate
    \/ \E ok \in BOOLEAN : EngineBuild(ok)

SpecDefine == InitDefine /\ [][NextDefine]_vars

(* ------------------------------- claims ------------------------------- *)

\* The invocations that have left ensure_container_running normally and did
\* not create a container themselves: they are about to release the lock.
Observers == {p \in Procs : /\ pc(p) = "er_release"
                            /\ loc[p].exc = "none"
                            /\ loc[p].newc = NoId}

\* C1 (amended): when N invocations call ensure_container_running
\* concurrently and no container runs at the start, the engine gets at most
\* one 'run --detach' call at any time and exactly one once all callers have
\* ended; a caller that gets the lock and does not create the container has
\* seen the recorded container running; a caller that has ended either
\* returned normally or died because its wait for the lock timed out.
C1_ExactlyOneCreate ==
    /\ runCalls <= 1
    /\ Cardinality({p \in Procs : loc[p].newc # NoId}) <= 1
    /\ (\A p \in Procs : pc(p) \in Ended) => runCalls = 1
    /\ \A p \in Observers :
          /\ loc[p].cached = record
          /\ record \in running
          /\ runCalls = 1
    /\ \A p \in Procs :
          pc(p) \in Ended =>
              \/ pc(p) = "done"
              \/ pc(p) = "died" /\ loc[p].exc = "lock_timeout"

\* C1 witness: one caller has created the container and returned, another
\* holds the lock and has found that container running.
C1_Witness ==
    \E p \in Observers : \E q \in Procs \ {p} :
        /\ pc(q) = "done"
        /\ runCalls = 1
        /\ loc[p].cached \in running

\* C1 as stated: exactly one 'run --detach' call, and every caller ends by
\* returning normally (the creator, or one that saw the container running).
C1_EveryCallerObserves ==
    /\ runCalls <= 1
    /\ (\A p \in Procs : pc(p) \in Ended) => runCalls = 1
    /\ \A p \in Procs : pc(p) \in Ended => pc(p) = "done"

\* C2: the engine never has more than one running container of the image.
C2_AtMostOneRunning == Cardinality(running) <= 1

\* C3: whoever is about to write (truncate, dump) or delete the
\* ContainerStateRecord holds the start lock.
C3_WritersHoldLock ==
    \A p \in Procs :
        pc(p) \in {"er_trunc", "er_write", "fs_unlink"} => lockHolder = p

\* C4: a call of ensure_container_running that finds the recorded container
\* running (as the second of two calls in a row does) goes straight to the
\* end of the critical section, and none of its steps from there on issues a
\* 'run' call, changes the set of running containers or rewrites the record.
C4_SecondCallCreatesNothing ==
    [][\A p \in Procs :
          /\ (pc(p) = "er_inspect" /\ loc[p].cached \in running
                                   /\ loc'[p] # loc[p])
                => /\ loc'[p].pc = "er_release"
                   /\ loc'[p].exc = "none"
                   /\ loc'[p].newc = NoId
                   /\ UNCHANGED <<record, running, runCalls>>
          /\ (p \in Observers /\ loc'[p] # loc[p])
                => /\ loc'[p].pc \in {"done", "xo_begin"}
                   /\ UNCHANGED <<record, running, runCalls>>]_vars

\* C4 witness: the first call created the container and has returned; the
\* second call has found it running.
C4_Witness ==
    \E p \in Observers : \E q \in Procs \ {p} :
        /\ pc(q) = "done"
        /\ runCalls = 1
        /\ record = FirstId + 1
        /\ loc[p].cached = record
        /\ loc[p].cmd = "start"

\* The positions of _run_main_container after its checks, and of the write.
CreatePcs == {"er_run", "er_trunc", "er_write"}

\* C5: ensure_container_running gets to the 'run' call and to the write of
\* the record only if the engine lists the image and built-with-version is
\* the tool's version; otherwise the step that checks this raises a fatal
\* error and leaves the containers, the 'run' count and the record alone,
\* and the caller then releases the lock and dies.
C5_CreateOnlyIfBuiltAndCurrent ==
    /\ [](\A p \in Procs :
             pc(p) \in CreatePcs => imagePresent /\ builtWith = numeric_version)
    /\ [][/\ runCalls' # runCalls => imagePresent /\ builtWith = numeric_version
          /\ \A p \in Procs :
                (/\ pc(p) = "er_images" /\ loc'[p] # loc[p]
                 /\ ~(imagePresent /\ builtWith = numeric_version))
                   => /\ loc'[p].pc = "er_release"
                      /\ loc'[p].exc \in {"images_failed", "not_built",
                                          "old_version"}
                      /\ UNCHANGED <<record, running, runCalls>>
          /\ \A p \in Procs :
                (/\ pc(p) = "er_release" /\ loc'[p] # loc[p]
                 /\ loc[p].exc # "none")
                   => /\ loc'[p].pc = "died"
                      /\ UNCHANGED <<record, running, runCalls>>]_vars

\* C5 witness: a caller for an image that is listed but was built with another
\* version has died of the version check, nothing started, nothing written.
C5_Witness ==
    \E p \in Procs :
        /\ pc(p) = "died" /\ loc[p].exc = "old_version"
        /\ imagePresent /\ builtWith # numeric_version
        /\ running = {} /\ runCalls = 0 /\ record = NoId

\* The positions of exec_command_only from the registration of the command
\* to the end of the 'finally' clause; the engine exec call is at "xo_call".
ExecPcs == {"xo_register", "xo_call", "xo_remove"}

\* C6: while built-with-version differs from the tool's version no invocation
\* is at or past the registration of an exec (user command or hook) and no
\* in-flight record exists: exec_command_only has died before.
C6_NoExecOnOldVersion ==
    builtWith # numeric_version =>
        \A p \in Procs : pc(p) \notin ExecPcs /\ files[p] = NoFile

\* C6 witness: the recorded container runs, the image was built with another
\* version, and an invocation has died of the version check of the exec.
C6_Witness ==
    \E p \in Procs :
        /\ pc(p) = "died" /\ loc[p].exc = "old_version"
        /\ builtWith # numeric_version
        /\ runCalls = 0 /\ record \in running

\* C7: what status() has returned is either an id that 'docker inspect'
\* reported as running during the call, or (none, empty); so commands are
\* only returned together with an id.
C7_StatusIdWasSeenRunning ==
    \A p \in Procs :
        loc[p].ret # <<>> =>
            /\ loc[p].ret[1] # NoId => /\ loc[p].ret[1] = loc[p].seen
                                       /\ Truthy(loc[p].ret[1])
            /\ loc[p].ret[1] = NoId => loc[p].ret[2] = {}

\* C7 witness: status() has returned an id together with a command in flight.
C7_Witness ==
    \E p \in Procs :
        /\ pc(p) = "done" /\ loc[p].ret # <<>>
        /\ loc[p].ret[1] # NoId /\ loc[p].ret[2] # {}

\* The positions inside status().
StatusPcs == {"st_read", "st_inspect", "grc_glob", "grc_read", "grc_check"}

\* C8: no step of status() issues a 'run' call (runCalls), stops or starts a
\* container (running), writes or deletes the ContainerStateRecord (record),
\* takes the start lock, or brings the caller into an engine exec call.
C8_StatusObservesOnly ==
    [][\A p \in Procs :
          (pc(p) \in StatusPcs /\ loc'[p] # loc[p])
             => /\ UNCHANGED <<record, running, runCalls, lockHolder>>
                /\ loc'[p].pc \notin ExecPcs \cup CreatePcs]_vars

\* C8 witness: status() has returned "not running" while the stale record it
\* read is still there.
C8_Witness ==
    \E p \in Procs :
        /\ pc(p) = "done" /\ loc[p].ret # <<>> /\ loc[p].ret[1] = NoId
        /\ loc[p].seen = NoId
        /\ record # NoId /\ record \notin running

\* C9: during the engine exec call the caller's in-flight record exists and
\* holds the serialized command; outside exec_command_only (before the
\* registration and after the return or the exception) it does not exist,
\* unless the process was killed.
C9_RecordExactlyDuringExec ==
    \A p \in Procs :
        /\ pc(p) = "xo_call" => files[p] = Serialize(ExecArgs(p))
        /\ files[p] # NoFile => pc(p) \in {"xo_call", "xo_remove", "killed"}

\* C9 witness: an exec that could not be started has raised out of
\* exec_command_only, and the in-flight record is gone.
C9_Witness ==
    \E p \in Procs :
        /\ pc(p) = "died" /\ loc[p].exc = "exec_failed"
        /\ files[p] = NoFile

\* The processes that are registered: between the write of their in-flight
\* record and its removal.
Registered == {q \in Procs : pc(q) \in {"xo_call", "xo_remove"}}

\* C10: when _get_running_commands has read the record of pid q and q is not
\* alive, it deletes the record and leaves q out of the result; when q is
\* alive, the record stays and q is in the result; and the arguments read
\* from the record of a registered process are its argument vector.
C10_ReclaimsDeadKeepsLive ==
    [][\A p \in Procs :
          /\ (pc(p) = "grc_check" /\ loc'[p] # loc[p]) =>
                LET q == loc[p].cur[1]
                    result == IF loc'[p].ret # <<>> THEN loc'[p].ret[2]
                              ELSE loc'[p].commands
                IN IF CheckPidRunning(q)
                   THEN files' = files /\ loc[p].cur \in result
                   ELSE files'[q] = NoFile /\ \A c \in result : c[1] # q
          /\ (pc(p) = "grc_read" /\ loc'[p] # loc[p]) =>
                \A q \in Registered :
                    (loc'[p].cur # <<>> /\ loc'[p].cur[1] = q
                       /\ files[q] = Serialize(ExecArgs(q)))
                        => loc'[p].cur[2] = ExecArgs(q)]_vars

\* The pids in a set of <<pid, args>> pairs.
PidsOf(cmds) == {c[1] : c \in cmds}

\* What _get_running_commands has collected after a step of p: the result
\* status() returned if the step ended the enumeration, else the dictionary.
CollectedAfter(l) == IF l.ret # <<>> THEN l.ret[2] ELSE l.commands

\* C11: when the record of pid q is gone at the time _get_running_commands
\* reads it (it was in the listing), or is gone at the time it removes the
\* record of a dead pid q (it was read), the step raises nothing, the
\* enumeration goes on or returns, and q is not in what it has collected.
C11_ToleratesVanishedRecord ==
    [][\A p \in Procs :
          /\ (pc(p) = "grc_read" /\ loc'[p] # loc[p]) =>
                \A q \in loc[p].listing \ loc'[p].listing :
                    files[q] = NoFile =>
                        /\ loc'[p].exc = "none"
                        /\ loc'[p].pc # "died"
                        /\ q \notin PidsOf(CollectedAfter(loc'[p]))
          /\ (/\ pc(p) = "grc_check" /\ loc'[p] # loc[p]
              /\ files[loc[p].cur[1]] = NoFile
              /\ ~CheckPidRunning(loc[p].cur[1])) =>
                    /\ loc'[p].exc = "none"
                    /\ loc'[p].pc # "died"
                    /\ loc[p].cur[1] \notin PidsOf(CollectedAfter(loc'[p]))]_vars

\* C11 witness: the record of q was in the listing p got, p has not read it
\* yet, and q has unregistered in between.
C11_Witness ==
    \E p \in Procs : \E q \in Procs :
        /\ pc(p) = "grc_read"
        /\ q \in loc[p].listing
        /\ files[q] = NoFile

\* Process p takes a step.
Steps(p) == loc'[p] # loc[p]

\* Process p has just run the last at-stop hook, or there is none to run.
StopHooksDone(p) ==
    \/ /\ pc(p) = "xo_remove" /\ loc[p].phase = "stop"
       /\ loc[p].idx + 1 = hooks["stop"] /\ loc[p].exc = "none"
    \/ /\ pc(p) \in StatusPcs \cup {"cs_prompt"}
       /\ hooks["stop"] = 0

\* C12: force_stop gets to 'docker stop' only from the end of the at-stop
\* hooks, to the query of the run state only from 'docker stop', and to the
\* unlink only from a query that reported the container as not running; no
\* at-stop hook runs after 'docker stop', a container stops only in the step
\* of 'docker stop', and the record is deleted only in the step of the unlink.
C12_ForceStopOrder ==
    [][/\ \A p \in Procs :
            Steps(p) =>
               /\ loc'[p].pc = "fs_stop" => StopHooksDone(p)
               /\ loc'[p].pc = "fs_inspect" => pc(p) = "fs_stop"
               /\ loc'[p].pc = "fs_unlink" =>
                     pc(p) = "fs_inspect" /\ loc[p].cached \notin running
               /\ loc'[p].phase = "stop" =>
                     pc(p) \notin {"fs_stop", "fs_inspect", "fs_unlink"}
       /\ running' # running /\ running' \subseteq running =>
            \E p \in Procs : Steps(p) /\ pc(p) = "fs_stop"
                                      /\ running' = running \ {loc[p].cached}
       /\ record' = NoId /\ record # NoId =>
            \E p \in Procs : Steps(p) /\ pc(p) = "fs_unlink"]_vars

\* C12 witness: an at-stop hook has run, the container was stopped, the
\* query reported it as not running, and force_stop is at the unlink.
C12_Witness ==
    \E p \in Procs :
        /\ pc(p) = "fs_unlink"
        /\ hooks["stop"] >= 1
        /\ loc[p].cached \notin running
        /\ record = loc[p].cached

\* C13: when the query after 'docker stop' reports the container as running,
\* force_stop dies and leaves the record alone; and no step deletes a record
\* that names a container the engine reports as running.
C13_NoDeleteWhileRunning ==
    [][/\ \A p \in Procs :
            (Steps(p) /\ pc(p) = "fs_inspect" /\ loc[p].cached \in running) =>
                /\ loc'[p].pc = "died"
                /\ loc'[p].exc = "still_running"
                /\ record' = record
       /\ record' = NoId /\ record # NoId => record \notin running]_vars

\* C14: a force_stop that is running its at-stop hooks (it was called for a
\* recorded container that status() saw running) does not die in any of the
\* steps of the hooks, whatever built-with-version and the hooks' outcome
\* are: it goes on towards 'docker stop'.
C14_StopHooksBestEffort ==
    [][\A p \in Procs :
          (Steps(p) /\ loc[p].phase = "stop") => loc'[p].pc # "died"]_vars

\* The hook of process p, whose engine call has returned an exit code, was
\* the last one of its list.
LastHook(p) == loc[p].idx + 1 = hooks[loc[p].phase]

Enters(p, ph) == loc'[p].phase = ph /\ loc[p].phase # ph

\* C16: exec_command starts the before-command hooks first (right after
\* ensure_container_running), the user command only when every
\* before-command hook has returned, and the after-command hooks only when
\* the user command has returned, whatever its exit code; that exit code is
\* what exec_command returns and what 'karton run' exits with.
C16_BeforeUserAfterExitCode ==
    [][\A p \in Procs :
          Steps(p) =>
             /\ Enters(p, "before") => pc(p) = "er_release"
             /\ Enters(p, "user") =>
                   \/ pc(p) = "er_release" /\ hooks["before"] = 0
                   \/ /\ pc(p) = "xo_remove" /\ loc[p].phase = "before"
                      /\ LastHook(p)
             /\ Enters(p, "after") => pc(p) = "xo_remove" /\ loc[p].phase = "user"
             /\ (/\ pc(p) = "xo_remove" /\ loc[p].phase = "user"
                 /\ loc[p].exc = "none") =>
                   /\ loc'[p].rc = loc[p].code
                   /\ loc'[p].exc = "none"
                   /\ IF hooks["after"] > 0
                      THEN /\ loc'[p].pc = "xo_begin"
                           /\ loc'[p].phase = "after" /\ loc'[p].idx = 0
                      ELSE loc'[p].pc = "done"
             /\ (loc[p].rc # NoCode /\ loc'[p].pc = "done") =>
                   loc'[p].rc = loc[p].rc]_vars

\* C16 witness: the user command exited with status 1, an after-command hook
\* has run, and 'karton run' has exited with status 1.
C16_Witness ==
    \E p \in Procs :
        /\ pc(p) = "done" /\ loc[p].rc = 1
        /\ hooks["before"] >= 1 /\ hooks["after"] >= 1

TimeoutConditions == {"TimeoutError", "timeout_cb"}

\* C18: acquire has returned normally only if flock succeeded and the lock is
\* marked locked; once the timeout has elapsed at the check after a failed
\* poll, acquire raises: the exception of timeout_cb if that raises, else
\* TimeoutError, with timeout_cb called once if given; and the lock is
\* neither marked locked nor held by the caller.
C18_NoNormalReturnAfterTimeout ==
    /\ [](/\ fl.pc = "fl_acquired" =>
               fl.locked /\ lockHolder = FlOwner /\ fl.raised = "none"
          /\ fl.locked => lockHolder = FlOwner
          /\ fl.pc = "fl_raised" =>
               ~fl.locked /\ lockHolder # FlOwner /\ fl.raised # "none")
    /\ [][(fl.pc = "fl_check" /\ TimedOut /\ fl' # fl) =>
             /\ fl'.pc = "fl_raised"
             /\ ~fl'.locked
             /\ lockHolder' # FlOwner
             /\ fl'.raised = IF fl.timeout_cb = "raises" THEN "timeout_cb"
                             ELSE "TimeoutError"
             /\ fl'.cb_calls = IF fl.timeout_cb = "none" THEN 0 ELSE 1]_vars

\* C18 witness: the timeout has elapsed, timeout_cb was called and returned,
\* and acquire has raised TimeoutError.
C18_Witness ==
    /\ fl.pc = "fl_raised"
    /\ fl.timeout_cb = "returns" /\ fl.cb_calls = 1
    /\ fl.raised = "TimeoutError"
    /\ fl.counter = fl.timeout * SleepsPerSecond

\* C19: with the lock file held by another process all the time, acquire
\* with timeout T ends, with the timeout condition, after T / 0.5 + 1 sleeps
\* of 0.5 s and as many failed polls (for T = 2 s: 5 sleeps, 2.5 s, within
\* 3 s and 6 poll intervals), and the lock is never marked locked.
C19_TimeoutAfterBoundedPolls ==
    /\ <>(fl.pc = "fl_raised")
    /\ [](/\ ~fl.locked
          /\ fl.pc # "fl_acquired"
          /\ fl.slept <= fl.timeout * SleepsPerSecond + 1
          /\ fl.timeout = 2 => fl.slept <= 3 * SleepsPerSecond
          /\ fl.pc = "fl_raised" =>
               /\ fl.raised \in TimeoutConditions
               /\ fl.slept = fl.timeout * SleepsPerSecond + 1)

\* C19 witness: a FileLock with a timeout of 2 s has raised TimeoutError
\* after 5 sleeps.
C19_Witness ==
    /\ fl.pc = "fl_raised" /\ fl.timeout = 2
    /\ fl.raised = "TimeoutError" /\ fl.slept = 5

\* The positions inside the 'with self._start_container_lock()' block of
\* ensure_container_running, the at-start hooks included.
InCriticalSection(p) ==
    \/ pc(p) \in {"er_read", "er_inspect", "er_images", "er_release"} \cup CreatePcs
    \/ pc(p) \in ExecPcs \cup {"xo_begin"} /\ loc[p].phase = "start"

\* C20: a process holds the start lock only inside the critical section of
\* ensure_container_running; it returns or dies of a fatal error raised
\* inside the section only through the release; and the step in which a
\* process stops holding the lock leaves the lock free for another process.
C20_LockReleasedOnEveryExit ==
    /\ [](\A p \in Procs : lockHolder = p => InCriticalSection(p))
    /\ [][\A p \in Procs :
             (Steps(p) /\ lockHolder = p) =>
                /\ loc'[p].pc \in {"died", "done"} => pc(p) = "er_release"
                /\ ~InCriticalSection(p)' => lockHolder' = NoProc
                /\ lockHolder' \in {p, NoProc}]_vars

\* C20 witness: a caller has died of a failed 'docker run' inside the
\* section, and another process has acquired the lock since.
C20_Witness ==
    \E p \in Procs : \E q \in Procs \ {p} :
        /\ pc(p) = "died" /\ loc[p].exc = "run_failed"
        /\ lockHolder = q

\* Directory dir is the mount's host path or lies beneath it.
Beneath(dir, mount) == StartsWith(Segments(dir), Segments(mount[1]))

\* The mounts whose host path contains the host current directory.
Matching == {i \in DOMAIN shared_paths : Beneath(host_cwd, shared_paths[i])}

\* Process p is in the exec of the user command under always-cd: its
\* container_dir is what _host_to_container_dir returned.
Translated(p) ==
    /\ loc[p].phase = "user" /\ cd_mode = CD_YES
    /\ loc[p].container_dir # NoDir

\* C21: _host_to_container_dir returns a directory only when the host
\* directory is a mount's host path or lies beneath one on a segment
\* boundary; a sibling sharing a string prefix and a directory under no
\* mount give None.
C21_ReachableOnlyBeneathMount ==
    \A p \in Procs : Translated(p) => Matching # {}

\* C21 happens: from /ab, with /a mounted, always-cd found no directory.
C21_Witness ==
    \E p \in Procs :
        /\ loc[p].exc = "cd_error"
        /\ host_cwd = <<"/", "a", "b">>
        /\ \E i \in DOMAIN shared_paths : shared_paths[i][1] = <<"/", "a">>

\* C22: the translated directory lies under the container path of the
\* matching mount with the longest host path, in whatever order the mounts
\* were declared.
C22_LongestMountWins ==
    \A p \in Procs :
        Translated(p) =>
            \E i \in Matching :
                /\ \A j \in Matching : Len(Segments(shared_paths[j][1]))
                                          <= Len(Segments(shared_paths[i][1]))
                /\ StartsWith(Segments(loc[p].container_dir),
                              Segments(shared_paths[i][2]))

\* C23: the translated directory is the container path of a matching mount
\* followed by the part of the host directory after the mount's host path,
\* unchanged.
C23_OnlyPrefixRewritten ==
    \A p \in Procs :
        Translated(p) =>
            \E i \in Matching :
                Segments(loc[p].container_dir) =
                    Segments(shared_paths[i][2]) \o
                    SubSeq(Segments(host_cwd),
                           Len(Segments(shared_paths[i][1])) + 1,
                           Len(Segments(host_cwd)))

\* C24: an exec_command_only call that passes its preconditions uses the
\* home directory under never-cd; under auto the translated current directory
\* if there is one, else the home directory; under always-cd the translated
\* directory if there is one, else it raises CDError and the invocation ends
\* at once: no in-flight record is written and no engine exec call is made.
C24_CdPolicy ==
    [][\A p \in Procs :
          (/\ pc(p) = "xo_begin" /\ loc'[p] # loc[p]
           /\ ExecPrecondition(GetContainerId(p)) = "none") =>
              LET t == HostToContainerDir(host_cwd)
              IN IF CdMode(p) = CD_YES /\ t = NoDir
                 THEN /\ loc'[p].exc = "cd_error"
                      /\ loc'[p].pc = "died"
                      /\ files' = files
                 ELSE /\ loc'[p].pc = "xo_register"
                      /\ loc'[p].container_dir =
                            IF CdMode(p) = CD_NO \/ t = NoDir
                            THEN user_home ELSE t]_vars

\* C24 happens: under always-cd from a directory no mount contains the
\* invocation has died of CDError with no in-flight record.
C24_Witness ==
    \E p \in Procs :
        /\ cd_mode = CD_YES /\ HostToContainerDir(host_cwd) = NoDir
        /\ pc(p) = "died" /\ loc[p].exc = "cd_error"
        /\ files[p] = NoFile

\* C25: the first operation on a Docker object makes the version query, once;
\* an operation on an object that has made the check makes no version query
\* and no sudo probe and leaves the command as the check left it.
C25_CheckAtMostOnce ==
    [][/\ docker'.version_queries = 1
       /\ docker.did_check_docker =>
             /\ docker.version_queries = 1
             /\ docker'.sudo_probes = docker.sudo_probes
             /\ docker'.docker_command = docker.docker_command]_vars

\* C25 happens: MaxOps operations have launched their command after one
\* version query.
C25_Witness ==
    /\ Len(docker.ops) = MaxOps
    /\ docker.version_queries = 1
    /\ \A i \in DOMAIN docker.ops : docker.ops[i].launched # <<>>

\* C26: once _ensure_docker has died, every later operation on the same
\* object fails too and launches no command.
C26_FailurePermanent ==
    \A i, j \in DOMAIN docker.ops :
        (i < j /\ docker.ops[i].result = "ensure_docker_died") =>
            /\ docker.ops[j].launched = <<>>
            /\ docker.ops[j].result # "returned"

\* The host on which the version query shows a client and no server, there is
\* no docker group, and 'sudo -n docker version' succeeds.
SudoCase ==
    /\ engine.found /\ engine.json = "no_server"
    /\ engine.group = DOCKER_GROUP_DOES_NOT_EXIST
    /\ engine.sudo_ok

\* The host on which the version query shows client and server.
DirectCase == engine.found /\ engine.json = "both"

\* C27: after the check the command is 'sudo -n docker' exactly in SudoCase,
\* and every operation then launches it; in DirectCase every operation
\* launches 'docker'; in every other case the operation that made the check
\* fails, launches nothing, and the command stays 'docker'.
C27_SudoPrefixExactlyWhen ==
    docker.ops # <<>> =>
        /\ docker.docker_command =
              IF SudoCase THEN SudoCommand \o DockerCommand ELSE DockerCommand
        /\ SudoCase => \A i \in DOMAIN docker.ops :
              docker.ops[i].launched = SudoCommand \o DockerCommand
        /\ DirectCase => \A i \in DOMAIN docker.ops :
              docker.ops[i].launched = DockerCommand
        /\ (~SudoCase /\ ~DirectCase) =>
              /\ docker.ops[1].result = "ensure_docker_died"
              /\ docker.ops[1].launched = <<>>

\* C27 happens: in SudoCase two operations have launched 'sudo -n docker'.
C27_Witness ==
    /\ SudoCase
    /\ Len(docker.ops) >= 2
    /\ docker.ops[2].launched = SudoCommand \o DockerCommand

Place(step, bootstrap) ==
    CASE step.kind = "from" -> 10
      [] step.kind = "maintainer" -> 20
      [] step.kind = "at-build-start" -> 30
      [] step.kind = "add-architecture" -> 40
      [] step.kind = "install" ->
            IF step.arg \in {<<"apt-utils">>, <<"locales">>} THEN 50
            ELSE IF step.arg = <<"python">> THEN bootstrap
            ELSE IF step.arg = <<"sudo">> THEN 60
            ELSE 80
      [] step.kind = "at-build-before-user-pkgs" -> 70
      [] step.kind = "clean" -> 90
      [] step.kind \in {"copy", "chmod"} -> 100
      [] step.kind = "add" -> 110
      [] step.kind \in {"useradd", "user"} -> 120
      [] step.kind = "at-build-end" -> 130

\* The steps of the written Dockerfile are in the order of their places.
InOrder(bootstrap) ==
    build.pc # "defined" =>
        \A i, j \in DOMAIN build.dockerfile :
            i < j => Place(build.dockerfile[i], bootstrap)
                        <= Place(build.dockerfile[j], bootstrap)

InstallsSudo ==
    \E i \in DOMAIN build.dockerfile :
        /\ build.dockerfile[i].kind = "install"
        /\ \E k \in DOMAIN build.dockerfile[i].arg :
              build.dockerfile[i].arg[k] = "sudo"

CopiesSudoers ==
    \E i \in DOMAIN build.dockerfile :
        /\ build.dockerfile[i].kind = "copy"
        /\ i + 1 \in DOMAIN build.dockerfile
        /\ build.dockerfile[i + 1] =
              [kind |-> "chmod", arg |-> <<"440", "/etc/sudoers">>]

\* C30: with SUDO_PASSWORDLESS the sudoers file has the line
\* '<user> ALL=(ALL) NOPASSWD: ALL', with SUDO_WITH_PASSWORD the line
\* '<user> ALL=(ALL) ALL', and in both cases sudo is installed and the file
\* is copied and given mode 440; with SUDO_NO no sudoers file is written, no
\* step copies one and sudo is not installed.
C30_SudoPolicy ==
    build.pc # "defined" =>
        LET user == build.props.username
            lines == {build.sudoers[i] : i \in DOMAIN build.sudoers}
        IN CASE build.props.sudo = SUDO_PASSWORDLESS ->
                  /\ <<user, " ALL=(ALL) ", "NOPASSWD: ", "ALL">> \in lines
                  /\ InstallsSudo /\ CopiesSudoers
             [] build.props.sudo = SUDO_WITH_PASSWORD ->
                  /\ <<user, " ALL=(ALL) ", "ALL">> \in lines
                  /\ <<user, " ALL=(ALL) ", "NOPASSWD: ", "ALL">> \notin lines
                  /\ InstallsSudo /\ CopiesSudoers
             [] build.props.sudo = SUDO_NO ->
                  /\ build.sudoers = <<>>
                  /\ ~InstallsSudo
                  /\ \A i \in DOMAIN build.dockerfile :
                        build.dockerfile[i].kind \notin {"copy", "chmod"}

\* C30 happens: a Dockerfile for SUDO_WITH_PASSWORD has been written.
C30_Witness ==
    /\ build.pc = "generated"
    /\ build.props.sudo = SUDO_WITH_PASSWORD
    /\ build.sudoers # <<>>

\* C31: whatever setup_image raises (a setter rejecting its value, a missing
\* attribute, an interrupt), generate ends with a DefinitionError carrying
\* the path of the definition file, no Dockerfile is written and the saved
\* ImageConfig is as it was.
C31_DefinitionErrorNoManifest ==
    [][build.pc = "setup" /\ build'.pc # "setup" /\ build'.pc # "defined"
       => /\ build'.pc = "definition_error"
          /\ build'.exc.type = "DefinitionError"
          /\ build'.exc.definition_file_path = definition_path
          /\ build'.dockerfile = <<>>
          /\ build'.content = build.content
          /\ build'.content \in EntryContents]_vars

\* C31 happens: after a path was shared, setup_image raised; generate has
\* ended with the error and the ImageConfig of the earlier build is there.
C31_Witness ==
    /\ build.pc = "definition_error"
    /\ build.dockerfile = <<>>
    /\ build.props.shared # <<>>
    /\ build.content = OldContent

\* Host path normalizes to the host home directory.
IsHostHome(host_path) == NormPath(host_path) = HostUserHome

C36_FailedBuildLeavesRecord ==
    /\ build.pc = "build_failed" =>
          /\ build.content \in EntryContents
          /\ \A entry \in EntryContents :
                entry.build_time = build.content.build_time
                    => ConfigSharedPaths(build.content)
                           = ConfigSharedPaths(entry)
    /\ build.pc \in {"setup", "defined", "definition_error", "generated",
                     "build_failed"} =>
          \E entry \in EntryContents :
              /\ build.content.built_with_version = entry.built_with_version
              /\ build.content.build_time = entry.build_time

\* What a reader finds in a record that is being written: the empty text of
\* the truncated file, or a part of the text.
HalfWritten == {EmptyId, PartialId}

\* C33: a status() that reads the record while its writer is between
\* truncating and closing it takes the text for an id, asks the engine,
\* and returns 'not running' with no commands; it raises nothing and never
\* returns such a text as the id of a running container.
C33_StatusToleratesHalfWrittenRecord ==
    [][\A p \in Procs :
          /\ (pc(p) = "st_read" /\ loc[p].cached = NoId
                 /\ record \in HalfWritten /\ loc'[p] # loc[p])
              => /\ loc'[p].pc = "st_inspect"
                 /\ loc'[p].exc = "none"
          /\ (pc(p) = "st_inspect" /\ loc[p].cached \in HalfWritten
                 /\ loc'[p] # loc[p])
              => /\ loc'[p].pc = "done"
                 /\ loc'[p].exc = "none"
                 /\ loc[p].cmd = "status" => loc'[p].ret = <<NoId, {}>>
          /\ loc'[p].ret # <<>> => loc'[p].ret[1] \notin HalfWritten]_vars

\* C33 happens: status has read a part of the text that another process,
\* which has not yet closed the file, is writing.
C33_Witness ==
    \E p, q \in Procs :
        /\ loc[p].cmd = "status" /\ pc(p) = "st_inspect"
        /\ loc[p].cached = PartialId
        /\ pc(q) = "er_write" /\ record = PartialId

\* Process p is a 'karton stop' without --force that is about to issue
\* 'docker stop'.
AboutToStop(p) == loc[p].cmd = "stop" /\ pc(p) = "fs_stop"

\* C34 as claimed: when 'karton stop' without --force issues 'docker stop'
\* while the in-flight record of another live process exists, the user has
\* answered 'y'.
C34_NoStopWithoutAsking ==
    \A p \in Procs :
        (AboutToStop(p) /\ \E q \in Procs \ {p} :
                              files[q] # NoFile /\ CheckPidRunning(q))
            => loc[p].answer = "y"

\* C34 amended: when 'karton stop' without --force goes on to stop the
\* container after its status() call returned commands of live processes,
\* the user has answered 'y'; an exec that registers after the enumeration
\* is not asked about.
C34_AsksWhenStatusFoundCommands ==
    \A p \in Procs :
        (loc[p].cmd = "stop" /\ loc[p].ret # <<>> /\ loc[p].ret[2] # {}
            /\ pc(p) # "cs_prompt")
            => loc[p].answer = "y"

\* C34 happens: status() found a command, the user said yes and the stop
\* is about to be issued while the command is still registered.
C34_Witness ==
    \E p \in Procs :
        /\ AboutToStop(p) /\ loc[p].ret[2] # {} /\ loc[p].answer = "y"
        /\ \E q \in Procs \ {p} : files[q] # NoFile /\ pc(q) = "xo_call"

\* Process p is inside ensure_container_running.
InEnsure(p) == loc[p].cmd = "start" /\ pc(p) \notin Ended \cup {"idle"}

\* C35: every ensure_container_running call ends, by returning or with an
\* error (the lock timeout included), and a process that holds the start
\* lock never comes to acquire it: the at-start commands run inside the
\* critical section without locking.
C35_EnsureTerminates ==
    /\ \A p \in Procs : InEnsure(p) ~> pc(p) \in Ended
    /\ [][\A p \in Procs : lockHolder' = p => loc'[p].pc # "er_lock"]_vars
    /\ [](\A p \in Procs :
             /\ pc(p) = "done" => loc[p].exc = "none"
             /\ pc(p) = "died" => loc[p].exc # "none")

\* C35 happens: a process runs an at-start command while it holds the lock
\* and another one is waiting for the lock.
C35_Witness ==
    \E p, q \in Procs :
        /\ lockHolder = p /\ loc[p].phase = "start" /\ pc(p) = "xo_call"
        /\ InEnsure(q) /\ pc(q) = "er_lock"

\* The id ensure_container_running of process p found running or was given
\* by the 'run' call.
EnsuredId(p) == IF loc[p].newc # NoId THEN loc[p].newc ELSE loc[p].cached

\* C37: when ensure_container_running returns normally the record holds
\* the id of the container the engine reported as running, or gave for the
\* new container, during the call; a stale record has been overwritten;
\* and the exec that follows uses that id.
C37_RecordAfterEnsure ==
    [][\A p \in Procs :
          /\ (pc(p) = "er_release" /\ loc[p].exc = "none"
                 /\ loc'[p] # loc[p])
              => /\ Truthy(EnsuredId(p))
                 /\ record' = EnsuredId(p)
          /\ (pc(p) = "xo_begin" /\ loc[p].cmd = "run"
                 /\ loc'[p] # loc[p])
              => GetContainerId(p) = EnsuredId(p)]_vars

\* No acquire() or release() call of the FileLock is running.
FlAtRest == fl.pc \in {"fl_new", "fl_acquired", "fl_released", "fl_raised"}

\* C38: outside of acquire() and release() the FileLock has an open lock
\* file exactly when it is marked locked, and is marked locked exactly when
\* its owner holds the flock; also after an acquire() that timed out.
C38_HandleIffLockedIffHeld ==
    FlAtRest =>
        /\ fl.lock_file <=> fl.locked
        /\ fl.locked <=> lockHolder = FlOwner

\* Pid q is that of a karton invocation.
ToolProcess(q) == pc(q) \notin Ended \cup {"idle", "foreign"}

\* C39: when _get_running_commands has checked the pid q of a record it
\* read, q is in its result only if q is a karton invocation (no false
\* positive, a pid that another process got after the invocation died
\* included), and q is in its result if q is an invocation between the
\* write and the removal of its record (no false negative).
C39_InFlightAccurate ==
    [][\A p \in Procs :
          (pc(p) = "grc_check" /\ loc'[p] # loc[p]) =>
              LET q == loc[p].cur[1] IN
              /\ q \in PidsOf(CollectedAfter(loc'[p])) => ToolProcess(q)
              /\ q \in Registered => q \in PidsOf(CollectedAfter(loc'[p]))]_vars

=============================================================================
